---- MODULE Spec2Model ----
(***************************************************************************)
(* State-machine model of the exchange core: the per-instrument order book *)
(* (exchange/matchingengine/Orderbook.py, Order.py, Trade.py) and the      *)
(* account / margin layer of the controller (exchange/Exchange.py,         *)
(* exchange/riskengine/standard_margin.py).                                *)
(***************************************************************************)
EXTENDS Integers, Sequences, FiniteSets, TLC

(***************************************************************************)
(* Bounds of the model.                                                    *)
(***************************************************************************)
\* number of process_order calls in one behaviour
MaxCalls == 3
\* largest value of the microsecond clock read by Order.__init__
MaxTime == 1
\* largest order size (number of contracts)
MaxSize == 3
\* largest limit price
MaxPrice == 2
\* number of RPC requests in one behaviour
MaxRequests == 4
\* largest amount of one deposit or withdrawal
MaxAmount == 2
\* largest leverage of an order
MaxLeverage == 2
\* number of messages the chart consumer reads in one behaviour
MaxChartEvents == 3
\* number of 5-second closes in one behaviour
MaxPeriods == 2
\* largest price and largest size of a trade tick
MaxTickPrice == 3
MaxTickSize == 2
\* largest magnitude of the EMA of (market price - index), in thousandths
MaxEma == 12
\* largest depth asked of public/get_order_book
MaxDepth == 2
\* number of RPC requests in one behaviour with unvalidated parameters
MaxUncheckedRequests == 3
\* number of RPC requests in one behaviour with a failing broker
MaxBrokerRequests == 3
\* number of calls started by the two threads in one behaviour
MaxThreadCalls == 3
\* largest amount of one call of a thread
MaxThreadContracts == 2
\* number of RPC requests in one behaviour with three accounts
MaxAccountsRequests == 4
\* number of RPC requests in one behaviour of a trading session
MaxTradingRequests == 5
\* largest amount of one order of a trading session
MaxContracts == 2

Addrs == {"0x01", "0x02"}
\* the server thread and the market-maker thread
Threads == {"rpc", "mm"}
ThreadContracts == 1..MaxThreadContracts
\* a thread outside any call: ids is the list of order ids marketMaker holds
NoCall == [call |-> [op |-> "none"], st |-> [none |-> TRUE], ids |-> {}]
Sizes == 1..MaxSize
Prices == 1..MaxPrice
TimesInForce == {"GTC", "IOC"}
Amounts == 1..MaxAmount
Leverages == 1..MaxLeverage

\* Side (Enum): the members are not equal to the strings "buy" / "sell"
BUY == "Side.BUY"
SELL == "Side.SELL"
Sides == {BUY, SELL}

VARIABLES
    bids,                        \* OrderBook.bids (SortedList of LimitOrder)
    asks,                        \* OrderBook.asks
    aggregated_bids_size_depth,  \* OrderBook.aggregated_bids_size_depth
    aggregated_asks_size_depth,  \* OrderBook.aggregated_asks_size_depth
    open_interest,               \* OrderBook.open_interest
    trades,                      \* OrderBook.trades (list of Trade)
    now,                         \* the clock read by Order.__init__
    next_id,                     \* number of order ids handed out (uuid1)
    calls,                       \* number of calls made (book calls, RPC requests)
    accounts,                    \* Exchange.accounts: address -> account
    price_feed,                  \* Exchange.price_feed[index name] (0: no price yet)
    response,                    \* "status" of the last handle_msg response
    all_ohlc_data,               \* charts: instrument -> rows of its DataFrame
    row_flags,                   \* charts: instrument -> the next tick opens a bar
    start_flags,                 \* charts: instrument -> seen
    frontier,                    \* charts: start of the open bar (5-second periods)
    utcnow,                      \* charts: the wall clock, in 5-second periods
    consuming,                   \* charts: TradesConsumer.consume has not raised
    ticks_since_close,           \* history: instrument -> ticks processed since
                                 \* the last on_close
    pc,                          \* thread -> where it is in its call
    local,                       \* thread -> the locals of its call
    users,                       \* Exchange.users (list of addresses)
    published,                   \* the trades acknowledged on topic "trades"
    exchange_trades              \* Exchange.trades[instrument]

exchange_vars ==
    <<bids, asks, aggregated_bids_size_depth, aggregated_asks_size_depth,
      open_interest, trades, now, next_id, accounts, price_feed, response>>

chart_vars ==
    <<all_ohlc_data, row_flags, start_flags, frontier, utcnow, consuming,
      ticks_since_close>>

thread_vars == <<pc, local, users, published, exchange_trades>>

vars == <<exchange_vars, calls, chart_vars, thread_vars>>

(***************************************************************************)
(* Orders (Order.py).                                                      *)
(***************************************************************************)
LimitOrder(fromaddr, order_id, side, size, leverage, price, time_in_force, time) ==
    [class |-> "LimitOrder", order_id |-> order_id, time |-> time,
     fromaddr |-> fromaddr, side |-> side, size |-> size,
     remainingToFill |-> size, time_in_force |-> time_in_force,
     leverage |-> leverage, price |-> price]

MarketOrder(fromaddr, order_id, side, size, leverage, time_in_force, time) ==
    [class |-> "MarketOrder", order_id |-> order_id, time |-> time,
     fromaddr |-> fromaddr, side |-> side, size |-> size,
     remainingToFill |-> size, time_in_force |-> time_in_force,
     leverage |-> leverage]

CancelOrder(fromaddr, order_id, time) ==
    [class |-> "CancelOrder", order_id |-> order_id, time |-> time,
     fromaddr |-> fromaddr]

\* get_obj(): the snapshot dict of an order; a LimitOrder's snapshot has no
\* "leverage" key
get_obj(o) ==
    IF o.class = "CancelOrder"
    THEN [class |-> "CancelOrder", order_id |-> o.order_id, time |-> o.time,
          fromaddr |-> o.fromaddr]
    ELSE IF o.class = "MarketOrder"
    THEN [class |-> "MarketOrder", order_id |-> o.order_id, time |-> o.time,
          side |-> IF o.side = BUY THEN "buy" ELSE "sell", size |-> o.size,
          time_in_force |-> o.time_in_force, fromaddr |-> o.fromaddr,
          remainingToFill |-> o.remainingToFill]
    ELSE [class |-> "LimitOrder", order_id |-> o.order_id, time |-> o.time,
          side |-> IF o.side = BUY THEN "buy" ELSE "sell", size |-> o.size,
          time_in_force |-> o.time_in_force, price |-> o.price,
          fromaddr |-> o.fromaddr, remainingToFill |-> o.remainingToFill]

\* a plausible slip: the time comparison reversed (later order first)
LtTimeReversed(self, other) ==
    IF self.price # other.price
    THEN IF self.side = BUY THEN self.price > other.price
                            ELSE self.price < other.price
    ELSE IF self.time # other.time THEN self.time > other.time
    ELSE IF self.size # other.size THEN self.size < other.size
    ELSE FALSE

\* a plausible slip: bids ordered like asks (lowest price first)
LtPriceAscending(self, other) ==
    IF self.price # other.price THEN self.price < other.price
    ELSE IF self.time # other.time THEN self.time < other.time
    ELSE IF self.size # other.size THEN self.size < other.size
    ELSE FALSE

\* LimitOrder.__lt__: price, then time, then (original) size; None (falsy)
\* when all three are equal
Lt(self, other) ==
    IF self.price # other.price
    THEN IF self.side = BUY THEN self.price > other.price
                            ELSE self.price < other.price
    ELSE IF self.time # other.time THEN self.time < other.time
    ELSE IF self.size # other.size THEN self.size < other.size
    ELSE FALSE

(***************************************************************************)
(* SortedList operations used by the book, on a list below the load        *)
(* factor (one sublist): add is insort_right, discard is bisect_left       *)
(* followed by an equality (identity) test, pop(0) takes the head.         *)
(***************************************************************************)
RECURSIVE bisect_right(_, _, _, _)
bisect_right(a, x, lo, hi) ==
    IF lo < hi
    THEN LET mid == (lo + hi) \div 2
         IN IF Lt(x, a[mid + 1]) THEN bisect_right(a, x, lo, mid)
                                 ELSE bisect_right(a, x, mid + 1, hi)
    ELSE lo

RECURSIVE bisect_left(_, _, _, _)
bisect_left(a, x, lo, hi) ==
    IF lo < hi
    THEN LET mid == (lo + hi) \div 2
         IN IF Lt(a[mid + 1], x) THEN bisect_left(a, x, mid + 1, hi)
                                 ELSE bisect_left(a, x, lo, mid)
    ELSE lo

\* SortedList.add(value)
SortedAdd(a, value) ==
    LET pos == bisect_right(a, value, 0, Len(a))
    IN SubSeq(a, 1, pos) \o <<value>> \o SubSeq(a, pos + 1, Len(a))

\* SortedList.discard(value): value is an element of a
SortedDiscard(a, value) ==
    LET idx == bisect_left(a, value, 0, Len(a))
    IN IF idx < Len(a) /\ a[idx + 1].order_id = value.order_id
       THEN SubSeq(a, 1, idx) \o SubSeq(a, idx + 2, Len(a))
       ELSE a

\* python dict assignment d[k] = v
Put(d, k, v) == [x \in (DOMAIN d) \cup {k} |-> IF x = k THEN v ELSE d[x]]

(***************************************************************************)
(* OrderBook.process_order (Orderbook.py).  The call works on a record st  *)
(* holding the book fields, the incoming order and the five return values; *)
(* st.matches logs, for every resting order popped by the loop, the order  *)
(* as it was popped, the orders left on its side, the incoming order as it *)
(* was then and the Trade object built for the match.                      *)
(***************************************************************************)
Begin(incomingOrder) ==
    [bids |-> bids, asks |-> asks,
     aggregated_bids_size_depth |-> aggregated_bids_size_depth,
     aggregated_asks_size_depth |-> aggregated_asks_size_depth,
     open_interest |-> open_interest, book_trades |-> trades,
     incomingOrder |-> incomingOrder,
     trades |-> << >>, updated_orders |-> << >>, filled_orders |-> << >>,
     cancelled_orders |-> << >>, involved_accounts |-> {},
     matches |-> << >>]

\* Trade.__init__
Trade(taker, maker, incoming_side, price, trade_size, incoming_order_id, book_order_id) ==
    [side |-> incoming_side, price |-> price, size |-> trade_size,
     incoming_order_id |-> incoming_order_id, book_order_id |-> book_order_id,
     taker |-> taker, maker |-> maker]

\* a plausible slip: the trade priced at the incoming order's limit price
NewTradeAtIncomingPrice(incomingOrder, bookOrder, volume) ==
    Trade(incomingOrder.fromaddr, bookOrder.fromaddr, incomingOrder.side,
          IF incomingOrder.class = "LimitOrder" THEN incomingOrder.price
                                                ELSE bookOrder.price,
          volume, incomingOrder.order_id, bookOrder.order_id)

\* the Trade(...) built in each branch of the loop
NewTrade(incomingOrder, bookOrder, volume) ==
    Trade(incomingOrder.fromaddr, bookOrder.fromaddr, incomingOrder.side,
          bookOrder.price, volume, incomingOrder.order_id, bookOrder.order_id)

\* OrderBook._execute_trade: trade.side is a Side member, compared with "buy"
\* (the broker message and the volume statistics are not part of st)
_execute_trade(st, trade) ==
    [st EXCEPT !.book_trades = Append(@, trade),
               !.open_interest = IF trade.side = "buy" THEN @ + trade.size
                                                       ELSE @ - trade.size]

\* OrderBook._update_size_aggregates
_update_size_aggregates(st, incomingOrderSide, size) ==
    IF incomingOrderSide = BUY
    THEN [st EXCEPT !.aggregated_asks_size_depth = @ - size]
    ELSE [st EXCEPT !.aggregated_bids_size_depth = @ - size]

\* the cancel branch for one side: the first resting order with the id
CancelBids(st) ==
    LET hit == {i \in 1..Len(st.bids) : st.bids[i].order_id = st.incomingOrder.order_id}
    IN IF hit = {} THEN st
       ELSE LET order == st.bids[CHOOSE i \in hit : \A j \in hit : i <= j]
            IN [st EXCEPT !.bids = SortedDiscard(@, order),
                          !.aggregated_bids_size_depth = @ - order.remainingToFill,
                          !.cancelled_orders =
                              Put(@, st.incomingOrder.order_id, get_obj(st.incomingOrder))]

CancelAsks(st) ==
    LET hit == {i \in 1..Len(st.asks) : st.asks[i].order_id = st.incomingOrder.order_id}
    IN IF hit = {} THEN st
       ELSE LET order == st.asks[CHOOSE i \in hit : \A j \in hit : i <= j]
            IN [st EXCEPT !.asks = SortedDiscard(@, order),
                          !.aggregated_asks_size_depth = @ - order.remainingToFill,
                          !.cancelled_orders =
                              Put(@, st.incomingOrder.order_id, get_obj(st.incomingOrder))]

\* a plausible slip: a limit order never matches
WhileClauseMarketOnly(st) ==
    IF st.incomingOrder.side = BUY
    THEN st.incomingOrder.class = "MarketOrder" /\ Len(st.asks) > 0
    ELSE st.incomingOrder.class = "MarketOrder" /\ Len(st.bids) > 0

\* whileClause()
whileClause(st) ==
    IF st.incomingOrder.side = BUY
    THEN IF st.incomingOrder.class = "LimitOrder"
         THEN Len(st.asks) > 0 /\ st.incomingOrder.price >= st.asks[1].price
         ELSE Len(st.asks) > 0
    ELSE IF st.incomingOrder.class = "LimitOrder"
         THEN Len(st.bids) > 0 /\ st.incomingOrder.price <= st.bids[1].price
         ELSE Len(st.bids) > 0

\* a plausible slip: the trade executed and returned whoever the maker is
FillWithoutSelfTradeTest(st, bookOrder, volume, trade) ==
    LET incomingOrder == st.incomingOrder
        s1 == [st EXCEPT !.incomingOrder.remainingToFill = @ - volume]
        s2 == _update_size_aggregates(s1, incomingOrder.side, volume)
        s3 == [s2 EXCEPT !.involved_accounts =
                             @ \cup {bookOrder.fromaddr, incomingOrder.fromaddr}]
    IN [_execute_trade(s3, trade) EXCEPT !.trades = Append(@, trade)]

\* the lines common to the three branches: both remainingToFill reduced by
\* volume, the aggregate updated, both accounts involved, the trade executed
\* and returned unless taker = maker
Fill(st, bookOrder, volume, trade) ==
    LET incomingOrder == st.incomingOrder
        s1 == [st EXCEPT !.incomingOrder.remainingToFill = @ - volume]
        s2 == _update_size_aggregates(s1, incomingOrder.side, volume)
        s3 == [s2 EXCEPT !.involved_accounts =
                             @ \cup {bookOrder.fromaddr, incomingOrder.fromaddr}]
    IN IF bookOrder.fromaddr # incomingOrder.fromaddr
       THEN [_execute_trade(s3, trade) EXCEPT !.trades = Append(@, trade)]
       ELSE s3

\* one iteration of the while loop: [st, brk]
LoopBody(st0) ==
    LET incomingOrder == st0.incomingOrder
        bookOrder == IF incomingOrder.side = BUY THEN st0.asks[1] ELSE st0.bids[1]
        st == IF incomingOrder.side = BUY THEN [st0 EXCEPT !.asks = Tail(@)]
                                          ELSE [st0 EXCEPT !.bids = Tail(@)]
        rest == IF incomingOrder.side = BUY THEN st.asks ELSE st.bids
        volume == IF incomingOrder.remainingToFill <= bookOrder.remainingToFill
                  THEN incomingOrder.remainingToFill
                  ELSE bookOrder.remainingToFill
        booked == [bookOrder EXCEPT !.remainingToFill = @ - volume]
        trade == NewTrade(incomingOrder, bookOrder, volume)
        f == [Fill(st, bookOrder, volume, trade) EXCEPT !.matches =
                 Append(@, [maker |-> bookOrder, rest |-> rest,
                            taker |-> incomingOrder, trade |-> trade])]
    IN IF incomingOrder.remainingToFill = bookOrder.remainingToFill
       THEN [st |-> [f EXCEPT !.filled_orders =
                        Put(Put(@, bookOrder.order_id, get_obj(booked)),
                            incomingOrder.order_id, get_obj(f.incomingOrder))],
             brk |-> TRUE]
       ELSE IF incomingOrder.remainingToFill > bookOrder.remainingToFill
       THEN [st |-> [f EXCEPT !.filled_orders =
                                  Put(@, bookOrder.order_id, get_obj(booked)),
                              !.updated_orders =
                                  Put(@, incomingOrder.order_id, get_obj(f.incomingOrder))],
             brk |-> FALSE]
       ELSE [st |-> [f EXCEPT !.filled_orders =
                                  Put(@, incomingOrder.order_id, get_obj(f.incomingOrder)),
                              !.updated_orders =
                                  Put(@, bookOrder.order_id, get_obj(booked)),
                              !.asks = IF bookOrder.side = SELL
                                       THEN SortedAdd(@, booked) ELSE @,
                              !.bids = IF bookOrder.side = SELL
                                       THEN @ ELSE SortedAdd(@, booked)],
             brk |-> TRUE]

RECURSIVE MatchLoop(_)
MatchLoop(st) ==
    IF whileClause(st)
    THEN LET r == LoopBody(st) IN IF r.brk THEN r.st ELSE MatchLoop(r.st)
    ELSE st

\* a plausible slip: the residual rested whatever the class of the order
AfterLoopRestMarket(st) ==
    LET incomingOrder == st.incomingOrder
    IN IF incomingOrder.remainingToFill > 0 /\ incomingOrder.time_in_force = "GTC"
       THEN [st EXCEPT
                !.bids = IF incomingOrder.side = BUY
                         THEN Append(@, incomingOrder) ELSE @,
                !.aggregated_bids_size_depth =
                         IF incomingOrder.side = BUY
                         THEN @ + incomingOrder.remainingToFill ELSE @,
                !.asks = IF incomingOrder.side = BUY
                         THEN @ ELSE Append(@, incomingOrder),
                !.aggregated_asks_size_depth =
                         IF incomingOrder.side = BUY
                         THEN @ ELSE @ + incomingOrder.remainingToFill,
                !.involved_accounts = @ \cup {incomingOrder.fromaddr},
                !.updated_orders =
                         Put(@, incomingOrder.order_id, get_obj(incomingOrder))]
       ELSE IF incomingOrder.time_in_force = "IOC"
       THEN [st EXCEPT
                !.involved_accounts = @ \cup {incomingOrder.fromaddr},
                !.cancelled_orders =
                         Put(@, incomingOrder.order_id, get_obj(incomingOrder))]
       ELSE st

\* a plausible slip: the residual of an IOC order dropped without a record
AfterLoopIOCUnrecorded(st) ==
    LET incomingOrder == st.incomingOrder
    IN IF /\ incomingOrder.remainingToFill > 0
          /\ incomingOrder.class = "LimitOrder"
          /\ incomingOrder.time_in_force = "GTC"
       THEN [st EXCEPT
                !.bids = IF incomingOrder.side = BUY
                         THEN SortedAdd(@, incomingOrder) ELSE @,
                !.aggregated_bids_size_depth =
                         IF incomingOrder.side = BUY
                         THEN @ + incomingOrder.remainingToFill ELSE @,
                !.asks = IF incomingOrder.side = BUY
                         THEN @ ELSE SortedAdd(@, incomingOrder),
                !.aggregated_asks_size_depth =
                         IF incomingOrder.side = BUY
                         THEN @ ELSE @ + incomingOrder.remainingToFill,
                !.involved_accounts = @ \cup {incomingOrder.fromaddr},
                !.updated_orders =
                         Put(@, incomingOrder.order_id, get_obj(incomingOrder))]
       ELSE st

\* a plausible slip: the residual rested whatever the time in force
AfterLoopRestAll(st) ==
    LET incomingOrder == st.incomingOrder
    IN IF incomingOrder.remainingToFill > 0 /\ incomingOrder.class = "LimitOrder"
       THEN [st EXCEPT
                !.bids = IF incomingOrder.side = BUY
                         THEN SortedAdd(@, incomingOrder) ELSE @,
                !.aggregated_bids_size_depth =
                         IF incomingOrder.side = BUY
                         THEN @ + incomingOrder.remainingToFill ELSE @,
                !.asks = IF incomingOrder.side = BUY
                         THEN @ ELSE SortedAdd(@, incomingOrder),
                !.aggregated_asks_size_depth =
                         IF incomingOrder.side = BUY
                         THEN @ ELSE @ + incomingOrder.remainingToFill,
                !.involved_accounts = @ \cup {incomingOrder.fromaddr},
                !.updated_orders =
                         Put(@, incomingOrder.order_id, get_obj(incomingOrder))]
       ELSE st

\* the statements after the loop: rest a limit GTC residual, else record an
\* IOC order as cancelled
AfterLoop(st) ==
    LET incomingOrder == st.incomingOrder
    IN IF /\ incomingOrder.remainingToFill > 0
          /\ incomingOrder.class = "LimitOrder"
          /\ incomingOrder.time_in_force = "GTC"
       THEN [st EXCEPT
                !.bids = IF incomingOrder.side = BUY
                         THEN SortedAdd(@, incomingOrder) ELSE @,
                !.aggregated_bids_size_depth =
                         IF incomingOrder.side = BUY
                         THEN @ + incomingOrder.remainingToFill ELSE @,
                !.asks = IF incomingOrder.side = BUY
                         THEN @ ELSE SortedAdd(@, incomingOrder),
                !.aggregated_asks_size_depth =
                         IF incomingOrder.side = BUY
                         THEN @ ELSE @ + incomingOrder.remainingToFill,
                !.involved_accounts = @ \cup {incomingOrder.fromaddr},
                !.updated_orders =
                         Put(@, incomingOrder.order_id, get_obj(incomingOrder))]
       ELSE IF incomingOrder.time_in_force = "IOC"
       THEN [st EXCEPT
                !.involved_accounts = @ \cup {incomingOrder.fromaddr},
                !.cancelled_orders =
                         Put(@, incomingOrder.order_id, get_obj(incomingOrder))]
       ELSE st

\* OrderBook.process_order(incomingOrder)
process_order(incomingOrder) ==
    IF incomingOrder.class = "CancelOrder"
    THEN CancelAsks(CancelBids(Begin(incomingOrder)))
    ELSE AfterLoop(MatchLoop(Begin(incomingOrder)))

\* the entry of a call that follows, without anything between, the call that
\* ended in st: the book as that call left it, the return values fresh
Again(st, incomingOrder) ==
    [st EXCEPT !.incomingOrder = incomingOrder,
               !.trades = << >>, !.updated_orders = << >>,
               !.filled_orders = << >>, !.cancelled_orders = << >>,
               !.involved_accounts = {}, !.matches = << >>]

\* the book fields after a call that ended in st
Commit(st) ==
    /\ bids' = st.bids
    /\ asks' = st.asks
    /\ aggregated_bids_size_depth' = st.aggregated_bids_size_depth
    /\ aggregated_asks_size_depth' = st.aggregated_asks_size_depth
    /\ open_interest' = st.open_interest
    /\ trades' = st.book_trades

(***************************************************************************)
(* The book driven directly, as orderbook_test.py and the market-maker     *)
(* entry points of Exchange.py drive it: an order is constructed (reading  *)
(* the clock, drawing a fresh id) and handed to process_order.             *)
(***************************************************************************)
Init ==
    /\ bids = << >>
    /\ asks = << >>
    /\ aggregated_bids_size_depth = 0
    /\ aggregated_asks_size_depth = 0
    /\ open_interest = 0
    /\ trades = << >>
    /\ now = 0
    /\ next_id = 0
    /\ calls = 0
    /\ accounts = << >>
    /\ price_feed = 0
    /\ response = "none"
    /\ all_ohlc_data = << >>
    /\ row_flags = << >>
    /\ start_flags = << >>
    /\ frontier = 0
    /\ utcnow = 0
    /\ consuming = TRUE
    /\ ticks_since_close = << >>
    /\ pc = [t \in Threads |-> "idle"]
    /\ local = [t \in Threads |-> NoCall]
    /\ users = << >>
    /\ published = << >>
    /\ exchange_trades = << >>

\* the values the clock can show when the next order is constructed: it does
\* not run backwards, and two orders can read the same microsecond
Clock == {t \in 0..MaxTime : now <= t /\ t <= now + 1}

\* the orders that can be constructed next
LimitOrders ==
    {LimitOrder(fromaddr, next_id + 1, side, size, 1, price, tif, t) :
        fromaddr \in Addrs, side \in Sides, size \in Sizes, price \in Prices,
        tif \in TimesInForce, t \in Clock}

MarketOrders ==
    {MarketOrder(fromaddr, next_id + 1, side, size, 1, "GTC", t) :
        fromaddr \in Addrs, side \in Sides, size \in Sizes, t \in Clock}

\* a CancelOrder names an id handed out earlier or one never handed out
CancelOrders ==
    {CancelOrder(fromaddr, order_id, t) :
        fromaddr \in Addrs, order_id \in 1..(next_id + 1), t \in Clock}

Incoming == LimitOrders \cup MarketOrders \cup CancelOrders

ProcessLimit ==
    \E order \in LimitOrders :
        /\ calls < MaxCalls
        /\ Commit(process_order(order))
        /\ now' = order.time
        /\ next_id' = next_id + 1
        /\ calls' = calls + 1
        /\ UNCHANGED <<chart_vars, thread_vars>>
        /\ UNCHANGED <<accounts, price_feed, response>>

ProcessMarket ==
    \E order \in MarketOrders :
        /\ calls < MaxCalls
        /\ Commit(process_order(order))
        /\ now' = order.time
        /\ next_id' = next_id + 1
        /\ calls' = calls + 1
        /\ UNCHANGED <<chart_vars, thread_vars>>
        /\ UNCHANGED <<accounts, price_feed, response>>

ProcessCancel ==
    \E order \in CancelOrders :
        /\ calls < MaxCalls
        /\ Commit(process_order(order))
        /\ now' = order.time
        /\ calls' = calls + 1
        /\ UNCHANGED <<chart_vars, thread_vars>>
        /\ UNCHANGED <<next_id, accounts, price_feed, response>>

Next == ProcessLimit \/ ProcessMarket \/ ProcessCancel

Spec == Init /\ [][Next]_vars

(***************************************************************************)
(* Exact arithmetic for the float quantities of the margin layer: a number *)
(* is a fraction [num, den] in lowest terms with den > 0.  Every value the *)
(* model compares is a multiple of 1/2 of a small integer, which a float   *)
(* holds exactly.                                                          *)
(***************************************************************************)
Abs(x) == IF x < 0 THEN 0 - x ELSE x

RECURSIVE Gcd(_, _)
Gcd(x, y) == IF y = 0 THEN x ELSE Gcd(y, x % y)

Frac(n, d) ==
    LET g == Gcd(Abs(n), Abs(d))
        s == IF d < 0 THEN 0 - 1 ELSE 1
    IN [num |-> (s * n) \div g, den |-> (s * d) \div g]

Num(i) == [num |-> i, den |-> 1]

\* a plausible slip: abs() left out
FAbsOmitted(x) == x

FAdd(x, y) == Frac(x.num * y.den + y.num * x.den, x.den * y.den)
FSub(x, y) == Frac(x.num * y.den - y.num * x.den, x.den * y.den)
FMul(x, y) == Frac(x.num * y.num, x.den * y.den)
FDiv(x, y) == Frac(x.num * y.den, x.den * y.num)
FAbs(x) == [num |-> Abs(x.num), den |-> x.den]
FGt(x, y) == x.num * y.den > y.num * x.den
FLe(x, y) == ~FGt(x, y)

(***************************************************************************)
(* Dicts: a dict is a function; the empty dict is the empty function.      *)
(***************************************************************************)
IsEmpty(d) == DOMAIN d = {}
Del(d, k) == [x \in DOMAIN d \ {k} |-> d[x]]

(***************************************************************************)
(* The margin engine (riskengine/standard_margin.py, margin_engine.py),    *)
(* for the one instrument the model trades.                                *)
(***************************************************************************)
get_standard_margin_for_positon(position) ==
    IF "margin" \in DOMAIN position THEN position.margin ELSE Num(0)

\* a snapshot without one of the three keys raises KeyError, caught: 0
get_standard_margin_for_order(open_order) ==
    IF {"remainingToFill", "price", "leverage"} \subseteq DOMAIN open_order
    THEN Frac(open_order.remainingToFill * open_order.price, open_order.leverage)
    ELSE Num(0)

RECURSIVE SumOrderMargins(_, _)
SumOrderMargins(open_orders, ids) ==
    IF ids = {} THEN Num(0)
    ELSE LET id == CHOOSE x \in ids : TRUE
         IN FAdd(get_standard_margin_for_order(open_orders[id]),
                 SumOrderMargins(open_orders, ids \ {id}))

get_standard_margin_for_orders(all_open_orders) ==
    SumOrderMargins(all_open_orders, DOMAIN all_open_orders)

\* new_order is None: its margin is 0
calculate_total_margin_required(all_positions, all_open_orders) ==
    FAdd(FAdd(get_standard_margin_for_positon(all_positions),
              get_standard_margin_for_orders(all_open_orders)),
         Num(0))

(***************************************************************************)
(* Accounts (Exchange.py).                                                 *)
(***************************************************************************)
_generateAccount ==
    [open_orders |-> << >>, positions |-> << >>, collateral |-> 0,
     available_margin |-> Num(0)]

\* handle_msg: an address seen for the first time gets an empty account
WithAccount(accts, from_addr) ==
    IF from_addr \in DOMAIN accts THEN accts
    ELSE Put(accts, from_addr, _generateAccount)

_refresh_account_positions(accts, account_addr) ==
    LET acc == accts[account_addr]
        margin == calculate_total_margin_required(acc.positions, acc.open_orders)
    IN [accts EXCEPT ![account_addr].available_margin =
            FSub(Num(acc.collateral), margin)]

\* python None, as the value of a function that ends without a return
None == [none |-> TRUE]

\* the delta of required margin the order would cause; None when no branch
\* returns
change_in_final_future_margin(accts, from_add, side, size, margin, leverage, price) ==
    LET instrument_position == accts[from_add].positions
    IN IF IsEmpty(instrument_position) THEN margin
       ELSE LET old_pos_size == instrument_position.size
                old_margin == instrument_position.margin
                new_size == IF side = "buy" THEN size ELSE 0 - size
            IN IF (old_pos_size > 0 /\ new_size > 0)
                  \/ (old_pos_size < 0 /\ new_size < 0)
               THEN margin
               ELSE IF (old_pos_size > 0 /\ new_size > 0 /\ old_pos_size > new_size)
                       \/ (old_pos_size < 0 /\ new_size < 0
                           /\ Abs(old_pos_size) > Abs(new_size))
               THEN Num(0)
               ELSE IF (old_pos_size > 0 /\ new_size < 0)
                       \/ (old_pos_size < 0 /\ new_size > 0)
               THEN LET new_position_size == Abs(old_pos_size - new_size)
                        new_margin_required ==
                            FDiv(FMul(Num(new_position_size), price), Num(leverage))
                    IN IF FGt(old_margin, new_margin_required) THEN Num(0)
                       ELSE FSub(new_margin_required, old_margin)
               ELSE IF (old_pos_size > 0 /\ new_size < 0
                        /\ Abs(new_size) = Abs(old_pos_size))
                       \/ (old_pos_size < 0 /\ new_size > 0
                           /\ Abs(new_size) = Abs(old_pos_size))
               THEN Num(0)
               ELSE None

\* Index.get_index_price: the fed price, 0 before the first feed
get_index_price == price_feed

\* a plausible slip: a closed position kept with size 0
ClosedPositionKept ==
    [average_price |-> Num(0), direction |-> "zero",
     estimated_liquidation_price |-> Num(0), margin |-> Num(0),
     leverage |-> 1, size |-> 0]

\* what the exact-close branch leaves for the instrument: the empty dict
ClosedPosition == << >>

\* the direction written after an update of an existing position
DirectionOf(size) ==
    IF size > 0 THEN "buy" ELSE IF size < 0 THEN "sell" ELSE "zero"

\* an exception raised in the middle of the account updates: the accounts as
\* they were when it was raised
Raised(accts) == [raised |-> accts]
IsRaised(x) == "raised" \in DOMAIN x

\* Exchange._update_futures_position for one side of one trade; the increase
\* branch divides by the new margin (ZeroDivisionError when it is 0)
_update_futures_position(accts, account, trade, trade_side, leverage) ==
    LET instrument_position == accts[account].positions
        direction == IF trade_side = BUY THEN "buy" ELSE "sell"
        trade_size == IF trade_side = BUY THEN trade.size ELSE 0 - trade.size
        trade_price == trade.price
        margin == Frac(trade_price * Abs(trade_size), leverage)
    IN IF IsEmpty(instrument_position)
       THEN [accts EXCEPT ![account].positions =
                [average_price |-> Num(trade_price), direction |-> direction,
                 estimated_liquidation_price |->
                     FSub(Num(trade_price), FDiv(margin, Num(trade_size))),
                 margin |-> margin, leverage |-> leverage, size |-> trade_size]]
       ELSE LET old_avg_price == instrument_position.average_price
                old_pos_size == instrument_position.size
                old_leverage == instrument_position.leverage
                old_margin == instrument_position.margin
                new_size == trade_size
                new_pos_size == old_pos_size + new_size
            IN IF (old_pos_size > 0 /\ new_size > 0)
                  \/ (old_pos_size < 0 /\ new_size < 0)
               THEN IF FAdd(old_margin, margin).num = 0 THEN Raised(accts)
                    ELSE
                    [accts EXCEPT ![account].positions =
                        [average_price |->
                             FDiv(FAdd(FMul(old_avg_price, Num(old_pos_size)),
                                       Num(new_size * trade_price)),
                                  Num(old_pos_size + new_size)),
                         direction |-> DirectionOf(new_pos_size),
                         estimated_liquidation_price |->
                             FSub(FDiv(FAdd(FMul(old_avg_price, Num(old_pos_size)),
                                            Num(new_size * trade_price)),
                                       Num(old_pos_size + new_size)),
                                  FDiv(FAdd(old_margin, margin), Num(new_pos_size))),
                         margin |-> FAdd(old_margin, margin),
                         leverage |-> leverage, size |-> new_pos_size]]
               ELSE IF Abs(old_pos_size) > Abs(new_size)
               THEN [accts EXCEPT ![account].positions =
                        [average_price |-> old_avg_price,
                         direction |-> DirectionOf(new_pos_size),
                         estimated_liquidation_price |->
                             FSub(old_avg_price,
                                  FDiv(FAbs(Frac(new_pos_size * trade_price,
                                                 old_leverage)),
                                       Num(new_pos_size))),
                         margin |-> FAbs(Frac(new_pos_size * trade_price, old_leverage)),
                         leverage |-> old_leverage, size |-> new_pos_size]]
               ELSE IF Abs(old_pos_size) < Abs(new_size)
               THEN [accts EXCEPT ![account].positions =
                        [average_price |-> Num(trade_price),
                         direction |-> DirectionOf(new_pos_size),
                         estimated_liquidation_price |->
                             FSub(Num(trade_price),
                                  FDiv(FAbs(Frac(new_pos_size * trade_price,
                                                 leverage)),
                                       Num(new_pos_size))),
                         margin |-> FAbs(Frac(new_pos_size * trade_price, leverage)),
                         leverage |-> leverage, size |-> new_pos_size]]
               ELSE [accts EXCEPT ![account].positions = ClosedPosition]

\* Exchange._update_account_positions: taker, then maker, trade by trade, both
\* with the leverage of the request being handled; an exception ends the loop
RECURSIVE _update_account_positions(_, _, _)
_update_account_positions(accts, ts, leverage) ==
    IF ts = << >> THEN accts
    ELSE LET trade == Head(ts)
             taker_side == trade.side
             maker_side == IF trade.side = BUY THEN SELL ELSE BUY
             a1 == _update_futures_position(accts, trade.taker, trade,
                                            taker_side, leverage)
         IN IF IsRaised(a1) THEN a1
            ELSE LET a2 == _update_futures_position(a1, trade.maker, trade,
                                                    maker_side, leverage)
                 IN IF IsRaised(a2) THEN a2
                    ELSE _update_account_positions(a2, Tail(ts), leverage)

RECURSIVE PutOpenOrders(_, _, _)
PutOpenOrders(accts, updated_orders, ids) ==
    IF ids = {} THEN accts
    ELSE LET order_id == CHOOSE x \in ids : TRUE
             order == updated_orders[order_id]
             a1 == IF order.class = "LimitOrder"
                   THEN [accts EXCEPT ![order.fromaddr].open_orders =
                            Put(@, order_id, order)]
                   ELSE accts
         IN PutOpenOrders(a1, updated_orders, ids \ {order_id})

\* the two deleting loops: a filled order is deleted if it is among the
\* account's open orders; cancelled_orders is empty for the GTC orders the
\* handlers build, so its unguarded del never runs
RECURSIVE DelOpenOrders(_, _, _)
DelOpenOrders(accts, orders, ids) ==
    IF ids = {} THEN accts
    ELSE LET order_id == CHOOSE x \in ids : TRUE
             account_addr == orders[order_id].fromaddr
         IN DelOpenOrders(
                [accts EXCEPT ![account_addr].open_orders = Del(@, order_id)],
                orders, ids \ {order_id})

\* Exchange._update_account_orders
_update_account_orders(accts, updated_orders, filled_orders, cancelled_orders) ==
    LET a1 == PutOpenOrders(accts, updated_orders, DOMAIN updated_orders)
        a2 == DelOpenOrders(a1, filled_orders, DOMAIN filled_orders)
    IN DelOpenOrders(a2, cancelled_orders, DOMAIN cancelled_orders)

\* a plausible slip: the order submitted before the margin gate returns
SettleAfterSubmit(rejected, accts, order, leverage) ==
    LET st == process_order(order)
        a1 == _update_account_positions(accts, st.trades, leverage)
    IN IF IsRaised(a1)
       THEN [status |-> "failed", accounts |-> a1.raised, st |-> st]
       ELSE [status |-> IF rejected THEN "failure" ELSE "success",
             accounts |-> _update_account_orders(a1, st.updated_orders,
                                                 st.filled_orders,
                                                 st.cancelled_orders),
             st |-> st]

\* the handlers from the margin gate on: the early return "Not enough
\* margin", else process_order and the two account updates; an exception in
\* the position update leaves the handler ("failed") after the book and the
\* positions updated so far have changed
Settle(rejected, accts, order, leverage) ==
    IF rejected
    THEN [status |-> "failure", accounts |-> accts, st |-> Begin(order)]
    ELSE LET st == process_order(order)
             a1 == _update_account_positions(accts, st.trades, leverage)
         IN IF IsRaised(a1)
            THEN [status |-> "failed", accounts |-> a1.raised, st |-> st]
            ELSE [status |-> "success",
                  accounts |-> _update_account_orders(a1, st.updated_orders,
                                                      st.filled_orders,
                                                      st.cancelled_orders),
                  st |-> st]

\* the comparison of the gate; None > number raises TypeError ("failed")
Gate(final_margin, collateral) ==
    IF "none" \in DOMAIN final_margin THEN "failed"
    ELSE IF FGt(final_margin, Num(collateral)) THEN "failure" ELSE "pass"

SideOf(method) == IF method = "private/buy" THEN BUY ELSE SELL
SideName(method) == IF method = "private/buy" THEN "buy" ELSE "sell"

\* Exchange._handle_lmt_order, for a request read at clock value t; the order
\* is constructed (an id drawn, the clock read) only past the gate; leverage 0
\* raises ZeroDivisionError where the margin is computed ("failed")
_handle_lmt_order(accts0, msg, t) ==
    LET accts == _refresh_account_positions(accts0, msg.from)
        account_addr == msg.from
        margin == Frac(msg.amount * msg.price, msg.leverage)
        final_margin == change_in_final_future_margin(
                            accts, account_addr, SideName(msg.method), msg.amount,
                            margin, msg.leverage, Num(msg.price))
        gate == Gate(final_margin, accts[account_addr].collateral)
        order == LimitOrder(account_addr, next_id + 1, SideOf(msg.method),
                            msg.amount, msg.leverage, msg.price, "GTC", t)
    IN IF msg.leverage = 0 \/ gate = "failed"
       THEN [status |-> "failed", accounts |-> accts, st |-> Begin(order)]
       ELSE Settle(gate = "failure", accts, order, msg.leverage)

\* Exchange._handle_mkt_order: the order is constructed before the gate
_handle_mkt_order(accts0, msg, t) ==
    LET accts == _refresh_account_positions(accts0, msg.from)
        account_addr == msg.from
        order == MarketOrder(account_addr, next_id + 1, SideOf(msg.method),
                             msg.amount, msg.leverage, "GTC", t)
        margin == Frac(msg.amount * get_index_price, msg.leverage)
        final_margin == change_in_final_future_margin(
                            accts, account_addr, SideName(msg.method), msg.amount,
                            margin, msg.leverage, Num(get_index_price))
        gate == Gate(final_margin, accts[account_addr].collateral)
    IN IF msg.leverage = 0 \/ gate = "failed"
       THEN [status |-> "failed", accounts |-> accts, st |-> Begin(order)]
       ELSE Settle(gate = "failure", accts, order, msg.leverage)

\* Exchange._add_coll (currency USDC)
_add_coll(accts, account_addr, collateral_to_add) ==
    [accts EXCEPT ![account_addr].collateral = @ + collateral_to_add]

\* Exchange._withdraw_coll
_withdraw_coll(accts0, account_addr, collateral_to_withdraw) ==
    LET accts == _refresh_account_positions(accts0, account_addr)
    IN IF FGt(accts[account_addr].available_margin, Num(collateral_to_withdraw))
       THEN [status |-> "success",
             accounts |-> [accts EXCEPT ![account_addr].collateral =
                               @ - collateral_to_withdraw]]
       ELSE [status |-> "error", accounts |-> accts]

(***************************************************************************)
(* The controller driven through handle_msg: one action per RPC method.    *)
(***************************************************************************)
Methods == {"private/buy", "private/sell"}

LimitRequests ==
    [method : Methods, type : {"limit"}, from : Addrs, amount : Sizes,
     leverage : Leverages, price : Prices]

MarketRequests ==
    [method : Methods, type : {"market"}, from : Addrs, amount : Sizes,
     leverage : Leverages]

\* handle_msg, private/buy and private/sell: the account is created when
\* missing, then the handler of the order type runs
handle_order(msg, t) ==
    IF msg.type = "limit"
    THEN _handle_lmt_order(WithAccount(accounts, msg.from), msg, t)
    ELSE _handle_mkt_order(WithAccount(accounts, msg.from), msg, t)

\* the state after the request msg handled with result res at clock value t:
\* an order was constructed unless a limit request stopped at the gate (a
\* request that failed after trades had got past it)
Respond(res, msg, t) ==
    /\ accounts' = res.accounts
    /\ response' = res.status
    /\ Commit(res.st)
    /\ IF msg.type = "market" \/ res.status = "success" \/ res.st.trades # << >>
       THEN now' = t /\ next_id' = next_id + 1
       ELSE UNCHANGED <<now, next_id>>
    /\ calls' = calls + 1
    /\ UNCHANGED <<chart_vars, thread_vars>>
    /\ UNCHANGED price_feed

\* the values the EMA of a book can have
Emas == {Frac(k, 1000) : k \in (0 - MaxEma)..MaxEma}

\* PerpsOrderbook.get_mark_price, for the book's perp_ema
PerpsOrderbook_get_mark_price(perp_ema) ==
    LET index_price == Num(get_index_price)
        band == FMul(Frac(5, 1000), index_price)
    IN IF FLe(band, perp_ema) THEN FMul(Frac(1005, 1000), index_price)
       ELSE IF FLe(perp_ema, band) THEN FMul(Frac(995, 1000), index_price)
       ELSE FAdd(index_price, perp_ema)

\* FuturesOrderbook.get_mark_price, for the book's futures_ema
FuturesOrderbook_get_mark_price(futures_ema) ==
    LET index_price == Num(get_index_price)
        band == FMul(Frac(5, 1000), index_price)
    IN IF FLe(band, futures_ema) THEN FMul(Frac(10000003, 10000000), index_price)
       ELSE IF FLe(futures_ema, band) THEN FMul(Frac(9999997, 10000000), index_price)
       ELSE FAdd(index_price, futures_ema)

\* Exchange._get_orderbook_data: the first depth orders of each side, the
\* local named asks being read from the book's bids and the local named bids
\* from the book's asks
_get_orderbook_data(depth) ==
    LET local_asks == bids
        local_bids == asks
        required_bids == IF Len(local_bids) = 0 THEN << >>
                         ELSE IF Len(local_bids) < depth THEN local_bids
                         ELSE SubSeq(local_bids, 1, depth)
        required_asks == IF Len(local_asks) = 0 THEN << >>
                         ELSE IF Len(local_asks) < depth THEN local_asks
                         ELSE SubSeq(local_asks, 1, depth)
    IN [bids |-> required_bids, asks |-> required_asks]

\* the private methods of handle_msg that read an account
QueryMethods ==
    {"private/get_collateral", "private/get_all_trades",
     "private/get_positions", "private/get_account_summary",
     "private/get_open_orders", "private/get_account_details"}

\* handle_msg for a method that reads the account of from_addr: the status of
\* the reply ("value" for a reply that is the bare value, without a status)
\* and the accounts afterwards. get_collateral and get_all_trades index
\* self.accounts directly, get_account_summary refreshes first; for an unknown
\* address the three raise KeyError, answered "failed". The other three
\* create the account first.
handle_query(method, from_addr) ==
    IF method \in {"private/get_collateral", "private/get_all_trades"}
    THEN [status |-> IF from_addr \in DOMAIN accounts THEN "value" ELSE "failed",
          accounts |-> accounts]
    ELSE IF method = "private/get_account_summary"
    THEN IF from_addr \in DOMAIN accounts
         THEN [status |-> "success",
               accounts |-> _refresh_account_positions(accounts, from_addr)]
         ELSE [status |-> "failed", accounts |-> accounts]
    ELSE IF method = "private/get_open_orders"
    THEN [status |-> "success", accounts |-> WithAccount(accounts, from_addr)]
    ELSE [status |-> "success",
          accounts |-> _refresh_account_positions(
                           WithAccount(accounts, from_addr), from_addr)]

Query ==
    \E method \in QueryMethods, from \in Addrs :
        /\ calls < MaxRequests
        /\ \E res \in {handle_query(method, from)} :
              accounts' = res.accounts /\ response' = res.status
        /\ calls' = calls + 1
        /\ UNCHANGED <<chart_vars, thread_vars>>
        /\ UNCHANGED <<bids, asks, aggregated_bids_size_depth,
                       aggregated_asks_size_depth, open_interest, trades, now,
                       next_id, price_feed>>

Deposit ==
    \E from \in Addrs, amount \in Amounts :
        /\ calls < MaxRequests
        /\ accounts' = _add_coll(WithAccount(accounts, from), from, amount)
        /\ response' = "success"
        /\ calls' = calls + 1
        /\ UNCHANGED <<chart_vars, thread_vars>>
        /\ UNCHANGED <<bids, asks, aggregated_bids_size_depth,
                       aggregated_asks_size_depth, open_interest, trades, now,
                       next_id, price_feed>>

Withdraw ==
    \E from \in Addrs, amount \in Amounts :
        /\ calls < MaxRequests
        /\ \E res \in {_withdraw_coll(WithAccount(accounts, from), from, amount)} :
              accounts' = res.accounts /\ response' = res.status
        /\ calls' = calls + 1
        /\ UNCHANGED <<chart_vars, thread_vars>>
        /\ UNCHANGED <<bids, asks, aggregated_bids_size_depth,
                       aggregated_asks_size_depth, open_interest, trades, now,
                       next_id, price_feed>>

PlaceLimit ==
    \E msg \in LimitRequests, t \in Clock :
        /\ calls < MaxRequests
        /\ \E res \in {handle_order(msg, t)} : Respond(res, msg, t)

PlaceMarket ==
    \E msg \in MarketRequests, t \in Clock :
        /\ calls < MaxRequests
        /\ \E res \in {handle_order(msg, t)} : Respond(res, msg, t)

\* private/handle_pricefeed_updates -> Exchange.set_price_feed
PricefeedUpdate ==
    \E price \in Prices :
        /\ calls < MaxRequests
        /\ price_feed' = price
        /\ response' = "success"
        /\ calls' = calls + 1
        /\ UNCHANGED <<chart_vars, thread_vars>>
        /\ UNCHANGED <<bids, asks, aggregated_bids_size_depth,
                       aggregated_asks_size_depth, open_interest, trades, now,
                       next_id, accounts>>

NextExchange ==
    Deposit \/ Withdraw \/ PlaceLimit \/ PlaceMarket \/ PricefeedUpdate \/ Query

SpecExchange == Init /\ [][NextExchange]_vars

(***************************************************************************)
(* Buy and sell requests with the parameters as the wire can carry them:   *)
(* handle_msg converts amount, leverage and price and applies no schema,   *)
(* so an amount below 0, a price of 0, a leverage of 0 and the name of an  *)
(* instrument that is not listed all reach the handlers.                   *)
(***************************************************************************)
supported_instrument_names == {"BTC-20DEC23"}

UncheckedRequests ==
    [method : Methods, type : {"limit"}, from : Addrs,
     instrument_name : supported_instrument_names \cup {"XRP-20DEC23"},
     amount : ((0 - 1)..MaxContracts) \ {0}, leverage : 0..MaxLeverage,
     price : 0..MaxPrice]
    \cup
    [method : Methods, type : {"market"}, from : Addrs,
     instrument_name : supported_instrument_names \cup {"XRP-20DEC23"},
     amount : ((0 - 1)..MaxContracts) \ {0}, leverage : 0..MaxLeverage]

\* handle_msg, private/buy and private/sell, for any instrument name:
\* _get_instrument_from_name raises KeyError for a name that is not listed,
\* after the account was created and before anything else ("failed")
handle_buy_sell(msg, t) ==
    IF msg.instrument_name \in supported_instrument_names
    THEN handle_order(msg, t)
    ELSE [status |-> "failed", accounts |-> WithAccount(accounts, msg.from),
          st |-> Begin(None)]

UncheckedDeposit ==
    \E from \in Addrs, amount \in Amounts :
        /\ calls < MaxUncheckedRequests
        /\ accounts' = _add_coll(WithAccount(accounts, from), from, amount)
        /\ response' = "success"
        /\ calls' = calls + 1
        /\ UNCHANGED <<chart_vars, thread_vars>>
        /\ UNCHANGED <<bids, asks, aggregated_bids_size_depth,
                       aggregated_asks_size_depth, open_interest, trades, now,
                       next_id, price_feed>>

UncheckedOrder ==
    \E msg \in UncheckedRequests :
        /\ calls < MaxUncheckedRequests
        /\ \E res \in {handle_buy_sell(msg, now + 1)} :
              /\ accounts' = res.accounts
              /\ response' = res.status
              /\ Commit(res.st)
              /\ IF /\ msg.instrument_name \in supported_instrument_names
                    /\ (msg.type = "market" \/ res.status = "success"
                        \/ res.st.trades # << >>)
                 THEN now' = now + 1 /\ next_id' = next_id + 1
                 ELSE UNCHANGED <<now, next_id>>
              /\ calls' = calls + 1
              /\ UNCHANGED <<chart_vars, thread_vars>>
              /\ UNCHANGED price_feed

NextUnchecked == UncheckedDeposit \/ UncheckedOrder

SpecUnchecked == Init /\ [][NextUnchecked]_vars

(***************************************************************************)
(* A trading session: deposits and orders only, every order constructed at *)
(* a later microsecond than the one before.  No price is fed, so the index *)
(* price stays 0 and a market order passes the gate without collateral.    *)
(* The session is long enough for positions to be reduced, closed and      *)
(* flipped.                                                                *)
(***************************************************************************)
Contracts == 1..MaxContracts

TradingLimitRequests == {msg \in LimitRequests : msg.amount \in Contracts}

TradingMarketRequests == {msg \in MarketRequests : msg.amount \in Contracts}

TradingDeposit ==
    \E from \in Addrs, amount \in Amounts :
        /\ calls < MaxTradingRequests
        /\ accounts' = _add_coll(WithAccount(accounts, from), from, amount)
        /\ response' = "success"
        /\ calls' = calls + 1
        /\ UNCHANGED <<chart_vars, thread_vars>>
        /\ UNCHANGED <<bids, asks, aggregated_bids_size_depth,
                       aggregated_asks_size_depth, open_interest, trades, now,
                       next_id, price_feed>>

TradingLimit ==
    \E msg \in TradingLimitRequests :
        /\ calls < MaxTradingRequests
        /\ \E res \in {handle_order(msg, now + 1)} : Respond(res, msg, now + 1)

TradingMarket ==
    \E msg \in TradingMarketRequests :
        /\ calls < MaxTradingRequests
        /\ \E res \in {handle_order(msg, now + 1)} : Respond(res, msg, now + 1)

NextTrading == TradingDeposit \/ TradingLimit \/ TradingMarket

SpecTrading == Init /\ [][NextTrading]_vars

(***************************************************************************)
(* The OHLC aggregator (charts/consumer.py): one consumer reading the      *)
(* topics trades and chartReqs, and the scheduler job on_close at every    *)
(* 5-second boundary of the wall clock.  Times are counted in 5-second     *)
(* periods: frontier is a floor to 5 seconds, so the test                  *)
(* int(timestamp / 1000) >= frontier compares the period of the trade with *)
(* the period of the frontier.  A DataFrame is the sequence of its rows.    *)
(***************************************************************************)
ChartInstruments == {"BTC-20DEC23", "ETH-20DEC23"}

\* the trade messages that can arrive: a trade made in the current period or
\* in the one before (consumed after the close that ended its period)
Ticks ==
    [instrument_name : ChartInstruments,
     timestamp : {t \in {utcnow - 1, utcnow} : t >= 0},
     price : 1..MaxTickPrice, size : 0..MaxTickSize]

\* the row process_tick appends for the first tick of a bar
NewBar(tick) ==
    [time |-> frontier, open |-> tick.price, high |-> tick.price,
     low |-> tick.price, close |-> tick.price, volume |-> tick.size]

\* a plausible slip: only the close follows the tick
UpdateCloseOnly(bar, tick) ==
    [bar EXCEPT !.close = tick.price, !.volume = @ + tick.size]

\* a plausible slip: the volume is replaced by the size of the tick
UpdateVolumeReplaced(bar, tick) ==
    LET b == IF tick.price > bar.high THEN [bar EXCEPT !.high = tick.price]
             ELSE IF tick.price < bar.low THEN [bar EXCEPT !.low = tick.price]
             ELSE bar
    IN [b EXCEPT !.close = tick.price, !.volume = tick.size]

\* process_tick, else branch: the last row updated in place
UpdateLastBar(bar, tick) ==
    LET b == IF tick.price > bar.high THEN [bar EXCEPT !.high = tick.price]
             ELSE IF tick.price < bar.low THEN [bar EXCEPT !.low = tick.price]
             ELSE bar
    IN [b EXCEPT !.close = tick.price, !.volume = @ + tick.size]

\* a plausible slip: the flat row starts from the open of the last row
FlatBarFromOpen(rows) ==
    LET c == rows[Len(rows)].open
    IN [time |-> frontier, open |-> c, high |-> c, low |-> c, close |-> c,
        volume |-> 0]

\* the row on_close appends for an instrument whose row_flag is set
FlatBar(rows) ==
    LET latest_close_price == rows[Len(rows)].close
    IN [time |-> frontier, open |-> latest_close_price,
        high |-> latest_close_price, low |-> latest_close_price,
        close |-> latest_close_price, volume |-> 0]

\* the row a chart request creates for an instrument not seen before
FirstRow ==
    [time |-> frontier, open |-> 0, high |-> 0, low |-> 0, close |-> 0,
     volume |-> 0]

\* consume, topic trades: an unknown instrument gets an empty DataFrame and
\* both flags, then process_tick runs.  Updating the last row of an empty
\* DataFrame raises IndexError, which consume re-raises: the consumer stops.
TradeTick ==
    \E tick \in Ticks :
        LET inst == tick.instrument_name
            known == inst \in DOMAIN all_ohlc_data
            rows == IF known THEN all_ohlc_data[inst] ELSE << >>
            flag == IF known THEN row_flags[inst] ELSE TRUE
            seen == IF inst \in DOMAIN ticks_since_close
                    THEN ticks_since_close[inst] ELSE << >>
        IN /\ consuming
           /\ calls < MaxChartEvents
           /\ start_flags' = Put(start_flags, inst, TRUE)
           /\ IF flag /\ tick.timestamp >= frontier
              THEN /\ all_ohlc_data' =
                         Put(all_ohlc_data, inst, Append(rows, NewBar(tick)))
                   /\ row_flags' = Put(row_flags, inst, FALSE)
                   /\ ticks_since_close' =
                         Put(ticks_since_close, inst, Append(seen, tick))
                   /\ UNCHANGED consuming
              ELSE IF rows = << >>
              THEN /\ all_ohlc_data' = Put(all_ohlc_data, inst, rows)
                   /\ row_flags' = Put(row_flags, inst, flag)
                   /\ consuming' = FALSE
                   /\ UNCHANGED ticks_since_close
              ELSE /\ all_ohlc_data' =
                         Put(all_ohlc_data, inst,
                             [rows EXCEPT ![Len(rows)] = UpdateLastBar(@, tick)])
                   /\ row_flags' = Put(row_flags, inst, flag)
                   /\ ticks_since_close' =
                         Put(ticks_since_close, inst, Append(seen, tick))
                   /\ UNCHANGED consuming
           /\ calls' = calls + 1
           /\ UNCHANGED <<exchange_vars, thread_vars, frontier, utcnow>>

\* consume, topic chartReqs: an unknown instrument gets one row of zeros at
\* the frontier and both flags; the answer is computed from a copy
ChartRequest ==
    \E inst \in ChartInstruments :
        /\ consuming
        /\ calls < MaxChartEvents
        /\ IF inst \in DOMAIN all_ohlc_data
           THEN UNCHANGED <<all_ohlc_data, row_flags, start_flags>>
           ELSE /\ all_ohlc_data' = Put(all_ohlc_data, inst, <<FirstRow>>)
                /\ row_flags' = Put(row_flags, inst, TRUE)
                /\ start_flags' = Put(start_flags, inst, TRUE)
        /\ calls' = calls + 1
        /\ UNCHANGED <<exchange_vars, thread_vars, frontier, utcnow, consuming,
                       ticks_since_close>>

\* on_close, run by the scheduler when the wall clock reaches the next
\* multiple of 5 seconds
on_close ==
    /\ consuming
    /\ utcnow < MaxPeriods
    /\ utcnow' = utcnow + 1
    /\ all_ohlc_data' =
          [inst \in DOMAIN all_ohlc_data |->
              IF row_flags[inst] /\ start_flags[inst]
              THEN Append(all_ohlc_data[inst], FlatBar(all_ohlc_data[inst]))
              ELSE all_ohlc_data[inst]]
    /\ row_flags' = [inst \in DOMAIN row_flags |-> TRUE]
    /\ frontier' = utcnow'
    /\ ticks_since_close' = [inst \in DOMAIN ticks_since_close |-> << >>]
    /\ UNCHANGED <<exchange_vars, thread_vars, calls, start_flags, consuming>>

NextCharts == TradeTick \/ ChartRequest \/ on_close

SpecCharts == Init /\ [][NextCharts]_vars

(***************************************************************************)
(* The broker on the fill path (producer.py, Orderbook._execute_trade):    *)
(* produce blocks until the message is acknowledged and re-raises when it  *)
(* is not; the exception leaves _execute_trade, process_order and the      *)
(* handler, and handle_msg answers "failed".                               *)
(***************************************************************************)
\* the order a buy/sell request constructs, at clock value t
OrderOf(msg, t) ==
    IF msg.type = "limit"
    THEN LimitOrder(msg.from, next_id + 1, SideOf(msg.method), msg.amount,
                    msg.leverage, msg.price, "GTC", t)
    ELSE MarketOrder(msg.from, next_id + 1, SideOf(msg.method), msg.amount,
                     msg.leverage, "GTC", t)

\* one iteration of the while loop in which produce raises: the resting
\* order is popped, the incoming order and the aggregate are reduced, the
\* trade is appended to the book's trades, and nothing after produce runs
RaisedInExecuteTrade(st0) ==
    LET incomingOrder == st0.incomingOrder
        bookOrder == IF incomingOrder.side = BUY THEN st0.asks[1] ELSE st0.bids[1]
        st == IF incomingOrder.side = BUY THEN [st0 EXCEPT !.asks = Tail(@)]
                                          ELSE [st0 EXCEPT !.bids = Tail(@)]
        volume == IF incomingOrder.remainingToFill <= bookOrder.remainingToFill
                  THEN incomingOrder.remainingToFill
                  ELSE bookOrder.remainingToFill
        trade == NewTrade(incomingOrder, bookOrder, volume)
        s1 == [st EXCEPT !.incomingOrder.remainingToFill = @ - volume]
        s2 == _update_size_aggregates(s1, incomingOrder.side, volume)
    IN [s2 EXCEPT !.book_trades = Append(@, trade)]

\* the while loop with the broker down: [st, raised]; an iteration whose
\* maker is the taker executes no trade and produces nothing
RECURSIVE MatchLoopBrokerDown(_)
MatchLoopBrokerDown(st) ==
    IF whileClause(st)
    THEN LET bookOrder == IF st.incomingOrder.side = BUY THEN st.asks[1]
                                                         ELSE st.bids[1]
         IN IF bookOrder.fromaddr # st.incomingOrder.fromaddr
            THEN [st |-> RaisedInExecuteTrade(st), raised |-> TRUE]
            ELSE LET r == LoopBody(st)
                 IN IF r.brk THEN [st |-> r.st, raised |-> FALSE]
                             ELSE MatchLoopBrokerDown(r.st)
    ELSE [st |-> st, raised |-> FALSE]

\* handle_msg for a buy/sell request while the broker is down: the request
\* is handled as ever up to the first produce
handle_order_broker_down(msg, t) ==
    LET up == handle_order(msg, t)
        accts == _refresh_account_positions(WithAccount(accounts, msg.from), msg.from)
        down == MatchLoopBrokerDown(Begin(OrderOf(msg, t)))
    IN IF up.status = "success" /\ down.raised
       THEN [status |-> "failed", accounts |-> accts, st |-> down.st]
       ELSE up

BrokerDeposit ==
    \E from \in Addrs, amount \in Amounts :
        /\ calls < MaxBrokerRequests
        /\ accounts' = _add_coll(WithAccount(accounts, from), from, amount)
        /\ response' = "success"
        /\ calls' = calls + 1
        /\ UNCHANGED <<chart_vars, thread_vars>>
        /\ UNCHANGED <<bids, asks, aggregated_bids_size_depth,
                       aggregated_asks_size_depth, open_interest, trades, now,
                       next_id, price_feed>>

\* a buy/sell request with the broker acknowledging every message
BrokerUpOrder ==
    \E msg \in TradingLimitRequests \cup TradingMarketRequests :
        /\ calls < MaxBrokerRequests
        /\ \E res \in {handle_order(msg, now + 1)} : Respond(res, msg, now + 1)

\* a buy/sell request with the broker down: the order was constructed when
\* the request got past the gate, whatever the answer
BrokerDownOrder ==
    \E msg \in TradingLimitRequests \cup TradingMarketRequests :
        /\ calls < MaxBrokerRequests
        /\ \E up \in {handle_order(msg, now + 1)} :
           \E res \in {handle_order_broker_down(msg, now + 1)} :
              /\ accounts' = res.accounts
              /\ response' = res.status
              /\ Commit(res.st)
              /\ IF msg.type = "market" \/ up.status = "success"
                 THEN now' = now + 1 /\ next_id' = next_id + 1
                 ELSE UNCHANGED <<now, next_id>>
              /\ calls' = calls + 1
              /\ UNCHANGED <<chart_vars, thread_vars>>
              /\ UNCHANGED price_feed

NextBroker == BrokerDeposit \/ BrokerUpOrder \/ BrokerDownOrder

SpecBroker == Init /\ [][NextBroker]_vars

(***************************************************************************)
(* The two threads of the exchange process (__main__.py): the server      *)
(* thread, which runs handle_msg for each request, and the daemon thread   *)
(* of marketMaker, which calls _marketMakerLimitOrder,                     *)
(* _marketTakerMarketOrder and _cancelOrder.  No lock is taken anywhere;   *)
(* a thread can be preempted between any two statements.  A step of the    *)
(* model is one of: the membership test of the lazy account creation, the  *)
(* creation, the work before process_order, one iteration of the while     *)
(* loop, the lines after the loop, the account updates after               *)
(* process_order.                                                          *)
(***************************************************************************)
\* the requests of the server thread: deposits and buy/sell orders
RpcCalls ==
    [op : {"deposit"}, from : Addrs, amount : ThreadContracts]
    \cup {[op |-> "order", from |-> msg.from, msg |-> msg] :
             msg \in {m \in LimitRequests \cup MarketRequests :
                         m.amount \in ThreadContracts /\ m.leverage = 1}}

\* the calls of marketMaker: buy limits from "0x01", sell limits and a
\* market sell of size 1 from "0x02", cancels of the ids it holds
MmCalls(ids) ==
    [op : {"limit"}, from : {"0x01"}, buy : {TRUE},
     contracts_size : ThreadContracts, price : Prices]
    \cup [op : {"limit"}, from : {"0x02"}, buy : {FALSE},
          contracts_size : ThreadContracts, price : Prices]
    \cup {[op |-> "market", from |-> "0x02", buy |-> FALSE, contracts_size |-> 1]}
    \cup {[op |-> "cancel", from |-> id[1], order_id |-> id[2]] : id \in ids}

\* a plausible slip: the message is sent without being acknowledged
ProduceUnacknowledged(topic, message) == topic

\* ExchangeProducer.produce with the broker up: returns once the message is
\* acknowledged
produce(topic, message) == Append(topic, message)

\* the order built by _marketMakerLimitOrder / _marketTakerMarketOrder
MakerOrder(call, t) ==
    IF call.op = "limit"
    THEN LimitOrder(call.from, next_id + 1, IF call.buy THEN BUY ELSE SELL,
                    call.contracts_size, 10, call.price, "GTC", t)
    ELSE MarketOrder(call.from, next_id + 1, IF call.buy THEN BUY ELSE SELL,
                     call.contracts_size, 10, "GTC", t)

\* _marketMakerLimitOrder / _marketTakerMarketOrder run without preemption:
\* the account is created when missing, the order processed, and nothing
\* else is done
_marketMakerOrder(call, t) ==
    [accounts |-> WithAccount(accounts, call.from),
     st |-> process_order(MakerOrder(call, t))]

\* the margin gate of _handle_lmt_order / _handle_mkt_order
GateOf(accts, msg) ==
    LET price == IF msg.type = "limit" THEN msg.price ELSE get_index_price
        margin == Frac(msg.amount * price, msg.leverage)
        final_margin == change_in_final_future_margin(
                            accts, msg.from, SideName(msg.method), msg.amount,
                            margin, msg.leverage, Num(price))
    IN Gate(final_margin, accts[msg.from].collateral)

\* the locals of a process_order call seen with the fields of the book as
\* they are now
View(st) ==
    [st EXCEPT !.bids = bids, !.asks = asks,
               !.aggregated_bids_size_depth = aggregated_bids_size_depth,
               !.aggregated_asks_size_depth = aggregated_asks_size_depth,
               !.open_interest = open_interest, !.book_trades = trades]

Goto(t, label) == pc' = [pc EXCEPT ![t] = label]

\* the thread is between the entry and the return of process_order
InProcessOrder(t) == pc[t] \in {"loop", "rest"}

\* a call starts and tests `from not in self.accounts` (_cancelOrder does
\* not test)
ThreadStart(t) ==
    \E call \in IF t = "rpc" THEN RpcCalls ELSE MmCalls(local[t].ids) :
        /\ pc[t] = "idle"
        /\ calls < MaxThreadCalls
        /\ calls' = calls + 1
        /\ local' = [local EXCEPT ![t].call = call]
        /\ Goto(t, IF call.op # "cancel" /\ call.from \notin DOMAIN accounts
                   THEN "generate" ELSE "operate")
        /\ UNCHANGED <<exchange_vars, chart_vars, users, published, exchange_trades>>

\* _generateAccount, entered because the test found no account
ThreadGenerate(t) ==
    /\ pc[t] = "generate"
    /\ users' = Append(users, local[t].call.from)
    /\ accounts' = Put(accounts, local[t].call.from, _generateAccount)
    /\ Goto(t, "operate")
    /\ UNCHANGED <<bids, asks, aggregated_bids_size_depth,
                   aggregated_asks_size_depth, open_interest, trades, now,
                   next_id, price_feed, response>>
    /\ UNCHANGED <<calls, chart_vars, local, published, exchange_trades>>

\* private/deposit past the account test: _add_coll
RpcDeposit ==
    /\ pc["rpc"] = "operate"
    /\ local["rpc"].call.op = "deposit"
    /\ accounts' = _add_coll(accounts, local["rpc"].call.from, local["rpc"].call.amount)
    /\ response' = "success"
    /\ Goto("rpc", "idle")
    /\ UNCHANGED <<bids, asks, aggregated_bids_size_depth,
                   aggregated_asks_size_depth, open_interest, trades, now,
                   next_id, price_feed>>
    /\ UNCHANGED <<calls, chart_vars, local, users, published, exchange_trades>>

\* private/buy, private/sell past the account test: the handler up to its
\* call of process_order (positions refreshed, the gate, the order built)
RpcGate ==
    /\ pc["rpc"] = "operate"
    /\ local["rpc"].call.op = "order"
    /\ LET msg == local["rpc"].call.msg
           accts == _refresh_account_positions(accounts, msg.from)
           gate == GateOf(accts, msg)
       IN /\ accounts' = accts
          /\ IF gate = "pass"
             THEN /\ local' = [local EXCEPT !["rpc"].st = Begin(OrderOf(msg, now + 1))]
                  /\ Goto("rpc", "loop")
                  /\ UNCHANGED response
             ELSE /\ response' = gate
                  /\ Goto("rpc", "idle")
                  /\ UNCHANGED local
          /\ IF gate = "pass" \/ msg.type = "market"
             THEN now' = now + 1 /\ next_id' = next_id + 1
             ELSE UNCHANGED <<now, next_id>>
    /\ UNCHANGED <<bids, asks, aggregated_bids_size_depth,
                   aggregated_asks_size_depth, open_interest, trades, price_feed>>
    /\ UNCHANGED <<calls, chart_vars, users, published, exchange_trades>>

\* _marketMakerLimitOrder / _marketTakerMarketOrder past the account test:
\* the order is built
MmSubmit ==
    /\ pc["mm"] = "operate"
    /\ local["mm"].call.op \in {"limit", "market"}
    /\ local' = [local EXCEPT !["mm"].st = Begin(MakerOrder(local["mm"].call, now + 1))]
    /\ now' = now + 1
    /\ next_id' = next_id + 1
    /\ Goto("mm", "loop")
    /\ UNCHANGED <<bids, asks, aggregated_bids_size_depth,
                   aggregated_asks_size_depth, open_interest, trades, accounts,
                   price_feed, response>>
    /\ UNCHANGED <<calls, chart_vars, users, published, exchange_trades>>

\* _cancelOrder: the cancel branch of process_order
MmCancel ==
    /\ pc["mm"] = "operate"
    /\ local["mm"].call.op = "cancel"
    /\ LET call == local["mm"].call
       IN /\ Commit(process_order(CancelOrder(call.from, call.order_id, now + 1)))
          /\ local' = [local EXCEPT !["mm"].ids = @ \ {<<call.from, call.order_id>>}]
    /\ now' = now + 1
    /\ Goto("mm", "idle")
    /\ UNCHANGED <<next_id, accounts, price_feed, response>>
    /\ UNCHANGED <<calls, chart_vars, users, published, exchange_trades>>

\* the test of the while loop and, when it holds, one iteration; the trade
\* of the iteration is produced to the topic inside _execute_trade
ThreadMatch(t) ==
    /\ pc[t] = "loop"
    /\ \E view \in {View(local[t].st)} :
          IF whileClause(view)
          THEN \E r \in {LoopBody(view)} :
                  /\ Commit(r.st)
                  /\ local' = [local EXCEPT ![t].st = r.st]
                  /\ published' = IF Len(r.st.trades) > Len(view.trades)
                                  THEN produce(published, r.st.trades[Len(r.st.trades)])
                                  ELSE published
                  /\ Goto(t, IF r.brk THEN "rest" ELSE "loop")
          ELSE /\ Goto(t, "rest")
               /\ UNCHANGED <<bids, asks, aggregated_bids_size_depth,
                              aggregated_asks_size_depth, open_interest, trades,
                              local, published>>
    /\ UNCHANGED <<now, next_id, accounts, price_feed, response>>
    /\ UNCHANGED <<calls, chart_vars, users, exchange_trades>>

\* the lines of process_order after the loop, and its return: the market
\* maker keeps the id of a limit order and is done, the handler goes on
ThreadRest(t) ==
    /\ pc[t] = "rest"
    /\ \E st \in {AfterLoop(View(local[t].st))} :
          /\ Commit(st)
          /\ IF t = "mm"
             THEN /\ local' = [local EXCEPT
                                  ![t].ids = IF local[t].call.op = "limit"
                                             THEN @ \cup {<<st.incomingOrder.fromaddr,
                                                            st.incomingOrder.order_id>>}
                                             ELSE @]
                  /\ Goto(t, "idle")
             ELSE /\ local' = [local EXCEPT ![t].st = st]
                  /\ Goto(t, "settle")
    /\ UNCHANGED <<now, next_id, accounts, price_feed, response>>
    /\ UNCHANGED <<calls, chart_vars, users, published, exchange_trades>>

\* the handler after process_order: the trades are added to Exchange.trades,
\* then _update_account_positions and _update_account_orders
RpcSettle ==
    /\ pc["rpc"] = "settle"
    /\ LET st == local["rpc"].st
           a1 == _update_account_positions(accounts, st.trades,
                                           local["rpc"].call.msg.leverage)
       IN /\ exchange_trades' = exchange_trades \o st.trades
          /\ IF IsRaised(a1)
             THEN accounts' = a1.raised /\ response' = "failed"
             ELSE /\ accounts' = _update_account_orders(a1, st.updated_orders,
                                                       st.filled_orders,
                                                       st.cancelled_orders)
                  /\ response' = "success"
    /\ Goto("rpc", "idle")
    /\ UNCHANGED <<bids, asks, aggregated_bids_size_depth,
                   aggregated_asks_size_depth, open_interest, trades, now,
                   next_id, price_feed>>
    /\ UNCHANGED <<calls, chart_vars, local, users, published>>

NextThreads ==
    \/ \E t \in Threads : ThreadStart(t)
    \/ \E t \in Threads : ThreadGenerate(t)
    \/ RpcDeposit
    \/ RpcGate
    \/ MmSubmit
    \/ MmCancel
    \/ \E t \in Threads : ThreadMatch(t)
    \/ \E t \in Threads : ThreadRest(t)
    \/ RpcSettle

SpecThreads == Init /\ [][NextThreads]_vars

(***************************************************************************)
(* The controller driven by three accounts: buy/sell requests of one       *)
(* contract, the limit price being whatever the request carries (0          *)
(* included: handle_msg validates nothing).                                *)
(***************************************************************************)
AccountsAddrs == Addrs \cup {"0x03"}

AccountsRequests ==
    [method : Methods, type : {"limit"}, from : AccountsAddrs, amount : {1},
     leverage : {1}, price : 0..1]
    \cup
    [method : Methods, type : {"market"}, from : AccountsAddrs, amount : {1},
     leverage : {1}]

AccountsOrder ==
    \E msg \in AccountsRequests :
        /\ calls < MaxAccountsRequests
        /\ \E res \in {handle_order(msg, now + 1)} : Respond(res, msg, now + 1)

NextAccounts == AccountsOrder

SpecAccounts == Init /\ [][NextAccounts]_vars

(***************************************************************************)
(* Properties of the order book.                                           *)
(***************************************************************************)
RECURSIVE SumRemaining(_)
SumRemaining(a) ==
    IF a = << >> THEN 0 ELSE Head(a).remainingToFill + SumRemaining(Tail(a))

RECURSIVE SignedSize(_)
SignedSize(ts) ==
    IF ts = << >> THEN 0
    ELSE (IF Head(ts).side = BUY THEN Head(ts).size ELSE 0 - Head(ts).size)
         + SignedSize(Tail(ts))

Range(a) == {a[i] : i \in DOMAIN a}
Min(x, y) == IF x <= y THEN x ELSE y

\* the matches the next limit or market order would make, whatever it is
NextMatches ==
    UNION {Range(process_order(o).matches) : o \in LimitOrders \cup MarketOrders}

\* C1: whenever both sides are non-empty after a call, the best bid price is
\* strictly below the best ask price.
C1_NoCrossingAtRest ==
    (Len(bids) > 0 /\ Len(asks) > 0) => bids[1].price < asks[1].price

\* both sides hold orders after a call that traded
C1_Witness ==
    /\ Len(bids) > 0 /\ Len(asks) > 0 /\ Len(trades) > 0
    /\ bids[1].price + 1 = asks[1].price

\* C2: after every call each size aggregate equals the sum of remainingToFill
\* over the orders resting on its side.
C2_AggregatesEqualRestingSizes ==
    /\ aggregated_bids_size_depth = SumRemaining(bids)
    /\ aggregated_asks_size_depth = SumRemaining(asks)

\* C3: every resting order is a limit order on the side equal to its own side
\* and on no other, with remainingToFill > 0 and time_in_force GTC.
C3_RestingOrdersWellFormed ==
    /\ \A i \in DOMAIN bids :
          /\ bids[i].class = "LimitOrder" /\ bids[i].side = BUY
          /\ bids[i].remainingToFill > 0 /\ bids[i].time_in_force = "GTC"
          /\ \A j \in DOMAIN bids : bids[j].order_id = bids[i].order_id => j = i
          /\ \A j \in DOMAIN asks : asks[j].order_id # bids[i].order_id
    /\ \A i \in DOMAIN asks :
          /\ asks[i].class = "LimitOrder" /\ asks[i].side = SELL
          /\ asks[i].remainingToFill > 0 /\ asks[i].time_in_force = "GTC"
          /\ \A j \in DOMAIN asks : asks[j].order_id = asks[i].order_id => j = i

\* after the last call a partially filled bid rests while asks rest too
C3_Witness ==
    /\ calls = MaxCalls
    /\ \E i \in DOMAIN bids : bids[i].remainingToFill < bids[i].size
    /\ Len(asks) > 0

\* C4: every trade carries the price of the resting order it was matched with
\* and a size of at most the smaller of the two orders' original sizes.
C4_TradeAtMakerPrice ==
    \A m \in NextMatches :
        /\ m.trade.price = m.maker.price
        /\ m.trade.size <= Min(m.maker.size, m.taker.size)
        /\ m.trade.size > 0

\* an incoming limit order trades with another account's resting order whose
\* price differs from its own limit
C4_Witness ==
    \E m \in NextMatches :
        /\ m.taker.class = "LimitOrder"
        /\ m.taker.price # m.maker.price
        /\ m.taker.fromaddr # m.maker.fromaddr
        /\ m.maker.remainingToFill < m.maker.size

\* C5: open_interest equals the sum over the executed trades of +size for an
\* aggressor BUY and -size for an aggressor SELL.
C5_OpenInterestSignedByAggressor ==
    open_interest = SignedSize(trades)

\* better(a, b): a rests at a strictly better price than b on their side
BetterPrice(a, b) ==
    IF a.side = BUY THEN a.price > b.price ELSE a.price < b.price

\* C9 as stated: at equal price the earlier created order is matched first,
\* and at equal price and time the one with the smaller remaining quantity.
C9_TimeThenRemainingPriority ==
    \A m \in NextMatches : \A r \in Range(m.rest) :
        r.price = m.maker.price =>
            /\ m.maker.time <= r.time
            /\ (m.maker.time = r.time =>
                    m.maker.remainingToFill <= r.remainingToFill)

\* C9 amended: at equal price the earlier created order is matched first, and
\* at equal price and time the one with the smaller original size.
C9_TimeThenSizePriority ==
    \A m \in NextMatches : \A r \in Range(m.rest) :
        r.price = m.maker.price =>
            /\ m.maker.time <= r.time
            /\ (m.maker.time = r.time => m.maker.size <= r.size)

\* an order is matched while an order of the same price and time, larger in
\* original size and partially filled, stays behind
C9_Witness ==
    \E m \in NextMatches : \E r \in Range(m.rest) :
        /\ r.price = m.maker.price /\ r.time = m.maker.time
        /\ r.size > m.maker.size
        /\ r.remainingToFill < m.maker.remainingToFill

\* C10: an incoming order never trades with a resting order while a strictly
\* better-priced order rests on the same side, and the matches of one call go
\* from the best price outward.
C10_PricePriority ==
    \A o \in LimitOrders \cup MarketOrders :
        LET ms == process_order(o).matches
        IN /\ \A i \in DOMAIN ms : \A r \in Range(ms[i].rest) :
                  ~BetterPrice(r, ms[i].maker)
           /\ \A i, j \in DOMAIN ms :
                  i < j => ~BetterPrice(ms[j].maker, ms[i].maker)

\* a market order sweeps two price levels
C10_Witness ==
    \E o \in MarketOrders :
        LET ms == process_order(o).matches
        IN /\ Len(ms) = 2
           /\ ms[1].maker.price # ms[2].maker.price
           /\ Len(process_order(o).trades) = 2

\* the resting orders of the book that ended a call in st
Resting(st) == Range(st.bids) \cup Range(st.asks)

\* the volume of a match: the smaller of the two remaining quantities
VolumeOf(m) == Min(m.taker.remainingToFill, m.maker.remainingToFill)

RECURSIVE MatchedVolume(_)
MatchedVolume(ms) ==
    IF ms = << >> THEN 0 ELSE VolumeOf(Head(ms)) + MatchedVolume(Tail(ms))

\* C11: when an incoming order is matched with a resting order of its own
\* account, the resting order loses the matched volume (it leaves the book
\* when nothing remains of it), the aggregate of its side falls by the volume
\* matched in the call, and no trade for the match is returned or appended to
\* the book's trade list (the broker message is sent by the statement that
\* appends to that list).
C11_SelfTradeConsumesWithoutTrade ==
    \A o \in LimitOrders \cup MarketOrders :
        LET st == process_order(o)
            ms == st.matches
        IN /\ \A i \in DOMAIN ms :
                 ms[i].taker.fromaddr = ms[i].maker.fromaddr =>
                    /\ \A tr \in Range(st.trades) \cup Range(st.book_trades) :
                          ~(tr.incoming_order_id = o.order_id
                            /\ tr.book_order_id = ms[i].maker.order_id)
                    /\ IF VolumeOf(ms[i]) = ms[i].maker.remainingToFill
                       THEN \A r \in Resting(st) :
                                r.order_id # ms[i].maker.order_id
                       ELSE \E r \in Resting(st) :
                                /\ r.order_id = ms[i].maker.order_id
                                /\ r.remainingToFill =
                                     ms[i].maker.remainingToFill - VolumeOf(ms[i])
           /\ (\E i \in DOMAIN ms : ms[i].taker.fromaddr = ms[i].maker.fromaddr) =>
                 IF o.side = BUY
                 THEN st.aggregated_asks_size_depth =
                          aggregated_asks_size_depth - MatchedVolume(ms)
                 ELSE st.aggregated_bids_size_depth =
                          aggregated_bids_size_depth - MatchedVolume(ms)

\* the next order can consume an own resting order entirely, then trade with
\* another account's order
C11_Witness ==
    \E o \in LimitOrders \cup MarketOrders :
        LET st == process_order(o)
            ms == st.matches
        IN /\ Len(ms) = 2
           /\ ms[1].taker.fromaddr = ms[1].maker.fromaddr
           /\ ms[2].taker.fromaddr # ms[2].maker.fromaddr
           /\ Len(st.trades) = 1

\* the book fields of st equal those of the current state
SameBook(st) ==
    /\ st.bids = bids /\ st.asks = asks
    /\ st.aggregated_bids_size_depth = aggregated_bids_size_depth
    /\ st.aggregated_asks_size_depth = aggregated_asks_size_depth
    /\ st.open_interest = open_interest /\ st.book_trades = trades

\* the five return values of the call that ended in st are empty
NothingReturned(st) ==
    /\ st.trades = << >> /\ IsEmpty(st.updated_orders)
    /\ IsEmpty(st.filled_orders) /\ IsEmpty(st.cancelled_orders)

\* C12: a CancelOrder whose id matches no resting order changes nothing and
\* returns nothing, and a second cancel of an id leaves the book as the first
\* cancel left it.
C12_CancelIdempotent ==
    \A c \in CancelOrders :
        LET st == process_order(c)
            twice == CancelAsks(CancelBids(Again(st, c)))
        IN /\ (\A r \in Range(bids) \cup Range(asks) : r.order_id # c.order_id)
                 => SameBook(st) /\ NothingReturned(st)
           /\ twice.bids = st.bids /\ twice.asks = st.asks
           /\ twice.aggregated_bids_size_depth = st.aggregated_bids_size_depth
           /\ twice.aggregated_asks_size_depth = st.aggregated_asks_size_depth
           /\ twice.open_interest = st.open_interest
           /\ twice.book_trades = st.book_trades

\* C13: after process_order of a MarketOrder neither side holds it and
\* neither aggregate is larger than before.
C13_MarketOrderNeverRests ==
    \A o \in MarketOrders :
        LET st == process_order(o)
        IN /\ \A r \in Resting(st) : r.order_id # o.order_id
           /\ st.aggregated_bids_size_depth <= aggregated_bids_size_depth
           /\ st.aggregated_asks_size_depth <= aggregated_asks_size_depth

\* the next market order can take all the liquidity of a side and keep a
\* residual
C13_Witness ==
    \E o \in MarketOrders :
        LET st == process_order(o)
        IN /\ Len(st.trades) > 0
           /\ st.incomingOrder.remainingToFill > 0
           /\ Len(st.bids) + Len(st.asks) > 0

\* C14: a limit IOC order with a residual after matching is recorded in the
\* cancelled orders with that residual and is not in the book, the aggregate
\* of its own side being what it was.
C14_IOCResidualCancelled ==
    \A o \in LimitOrders :
        LET st == process_order(o)
        IN (o.time_in_force = "IOC" /\ st.incomingOrder.remainingToFill > 0) =>
              /\ o.order_id \in DOMAIN st.cancelled_orders
              /\ st.cancelled_orders[o.order_id].remainingToFill =
                     st.incomingOrder.remainingToFill
              /\ \A r \in Resting(st) : r.order_id # o.order_id
              /\ IF o.side = BUY
                 THEN st.aggregated_bids_size_depth = aggregated_bids_size_depth
                 ELSE st.aggregated_asks_size_depth = aggregated_asks_size_depth

\* the next IOC limit order can trade a part and keep a residual
C14_Witness ==
    \E o \in LimitOrders :
        LET st == process_order(o)
        IN /\ o.time_in_force = "IOC"
           /\ Len(st.trades) > 0
           /\ st.incomingOrder.remainingToFill > 0
           /\ st.incomingOrder.remainingToFill < o.size

(***************************************************************************)
(* Properties of the margin layer.                                         *)
(***************************************************************************)
\* the order resting in the book under an id
RestingOrder(order_id) ==
    CHOOSE o \in Range(bids) \cup Range(asks) : o.order_id = order_id

\* remaining * price / leverage of an open order, the leverage being the one
\* the order was placed with
OpenOrderMargin(open_order) ==
    Frac(open_order.remainingToFill * open_order.price,
         RestingOrder(open_order.order_id).leverage)

RECURSIVE SumOpenOrderMargins(_, _)
SumOpenOrderMargins(open_orders, ids) ==
    IF ids = {} THEN Num(0)
    ELSE LET id == CHOOSE x \in ids : TRUE
         IN FAdd(OpenOrderMargin(open_orders[id]),
                 SumOpenOrderMargins(open_orders, ids \ {id}))

\* total_required(A): the margin of A's position plus that of A's open orders
TotalRequired(acc) ==
    FAdd(get_standard_margin_for_positon(acc.positions),
         SumOpenOrderMargins(acc.open_orders, DOMAIN acc.open_orders))

\* C6: for every account the margin of its positions plus remaining * price /
\* leverage over its open orders never exceeds its USDC collateral.
C6_MarginWithinCollateral ==
    \A a \in DOMAIN accounts :
        FLe(TotalRequired(accounts[a]), Num(accounts[a].collateral))

\* the margin change the gate computes for a request
Delta(accts, msg) ==
    change_in_final_future_margin(
        accts, msg.from, SideName(msg.method), msg.amount,
        IF msg.type = "limit" THEN Frac(msg.amount * msg.price, msg.leverage)
                              ELSE Frac(msg.amount * get_index_price, msg.leverage),
        msg.leverage,
        IF msg.type = "limit" THEN Num(msg.price) ELSE Num(get_index_price))

\* C7: a buy or sell is rejected with "not enough margin" exactly when
\* total_required(A) + delta > collateral.
C7_GateCountsMarginInUse ==
    \A msg \in LimitRequests \cup MarketRequests : \A t \in Clock :
        LET accts == WithAccount(accounts, msg.from)
        IN handle_order(msg, t).status = "failure"
           <=> FGt(FAdd(TotalRequired(accts[msg.from]), Delta(accts, msg)),
                   Num(accts[msg.from].collateral))

\* position size of an account, 0 without a position
PositionSize(acc) == IF IsEmpty(acc.positions) THEN 0 ELSE acc.positions.size

\* C8: a step that answers "failure" (the margin gate) leaves bids, asks, the
\* aggregates, the trades and the open interest as they were, and leaves every
\* account's collateral, position size and open orders as they were, the
\* caller's included (an account created by the request has none).
C8_RejectionChangesNothing ==
    [][response' = "failure" =>
          /\ UNCHANGED <<bids, asks, aggregated_bids_size_depth,
                         aggregated_asks_size_depth, open_interest, trades>>
          /\ \A a \in DOMAIN accounts' :
                LET before == WithAccount(accounts, a)[a]
                IN /\ accounts'[a].collateral = before.collateral
                   /\ PositionSize(accounts'[a]) = PositionSize(before)
                   /\ accounts'[a].open_orders = before.open_orders]_vars

\* a request was rejected while the book held orders and some account, with
\* collateral, an open order and a position, could have been the caller
C8_Witness ==
    /\ response = "failure"
    /\ Len(bids) + Len(asks) > 0
    /\ Len(trades) > 0
    /\ \E a \in DOMAIN accounts :
          /\ accounts[a].collateral > 0
          /\ ~IsEmpty(accounts[a].open_orders)

(***************************************************************************)
(* Properties of positions.                                                *)
(***************************************************************************)
\* the signed size of a trade for an account: + bought, - sold, 0 not a party
SignedFill(a, tr) ==
    IF tr.taker = a THEN (IF tr.side = BUY THEN tr.size ELSE 0 - tr.size)
    ELSE IF tr.maker = a THEN (IF tr.side = BUY THEN 0 - tr.size ELSE tr.size)
    ELSE 0

RECURSIVE NetFills(_, _)
NetFills(a, ts) ==
    IF ts = << >> THEN 0 ELSE SignedFill(a, Head(ts)) + NetFills(a, Tail(ts))

\* C15: every existing position has direction buy iff size > 0 and sell iff
\* size < 0, and no stored position has size 0.
C15_DirectionMatchesSign ==
    \A a \in DOMAIN accounts :
        LET position == accounts[a].positions
        IN ~IsEmpty(position) =>
              /\ position.size # 0
              /\ position.direction = "buy" <=> position.size > 0
              /\ position.direction = "sell" <=> position.size < 0

\* the fills that can be applied to an account: one side of a trade of any
\* size and price, with any leverage
Fills ==
    {[trade |-> Trade("taker", "maker", BUY, price, size, 0, 0),
      side |-> side, leverage |-> leverage] :
        price \in Prices, size \in Sizes, side \in Sides, leverage \in Leverages}

SignedSizeOf(f) == IF f.side = BUY THEN f.trade.size ELSE 0 - f.trade.size

\* the position of account a after fill f is applied to it
Applied(a, f) ==
    _update_futures_position(accounts, a, f.trade, f.side, f.leverage)[a].positions

\* C16: a fill of size s at price p with leverage L on the side opposite to an
\* existing position with |size| < s flips it: size = old size + signed s,
\* average_price = p, leverage = L, margin = |size * p / L|, direction
\* reversed, liquidation price = p - margin / size.
C16_FlipIsNewPosition ==
    \A a \in DOMAIN accounts : \A f \in Fills :
        LET old == accounts[a].positions
            new == Applied(a, f)
            p == f.trade.price
        IN (/\ ~IsEmpty(old)
            /\ old.size * SignedSizeOf(f) < 0
            /\ Abs(old.size) < f.trade.size) =>
              /\ ~IsEmpty(new)
              /\ new.size = old.size + SignedSizeOf(f)
              /\ new.size * old.size < 0
              /\ new.average_price = Num(p)
              /\ new.leverage = f.leverage
              /\ new.margin = Frac(Abs(new.size) * p, f.leverage)
              /\ new.direction = (IF old.size > 0 THEN "sell" ELSE "buy")
              /\ new.estimated_liquidation_price =
                     FSub(Num(p), Frac(Abs(new.size) * p, f.leverage * new.size))

\* a position was flipped by the last trade: the account was long after the
\* first trade and is short, at the price and size the flip leaves
C16_Witness ==
    \E a \in DOMAIN accounts :
        LET position == accounts[a].positions
            last == trades[Len(trades)]
        IN /\ Len(trades) = 2
           /\ SignedFill(a, trades[1]) > 0
           /\ SignedFill(a, last) + SignedFill(a, trades[1]) < 0
           /\ ~IsEmpty(position)
           /\ position.size = NetFills(a, trades)
           /\ position.average_price = Num(last.price)
           /\ position.direction = "sell"

\* C17: the first fill creates the position, and a fill on the opposite side
\* whose size equals the position's magnitude deletes it, after which no
\* margin is counted for it in the total required margin.
C17_CreatedByFirstFillDeletedByClose ==
    \A a \in DOMAIN accounts : \A f \in Fills :
        LET old == accounts[a].positions
            new == Applied(a, f)
        IN /\ IsEmpty(old) =>
                /\ ~IsEmpty(new)
                /\ new.size = SignedSizeOf(f)
                /\ new.average_price = Num(f.trade.price)
                /\ new.leverage = f.leverage
                /\ new.margin = Frac(f.trade.size * f.trade.price, f.leverage)
           /\ (/\ ~IsEmpty(old)
               /\ old.size * SignedSizeOf(f) < 0
               /\ Abs(old.size) = f.trade.size) =>
                /\ IsEmpty(new)
                /\ calculate_total_margin_required(new, accounts[a].open_orders)
                     = get_standard_margin_for_orders(accounts[a].open_orders)

\* both accounts got a position by a first trade and lost it by a second
\* trade of the same size on the opposite side
C17_Witness ==
    /\ Len(trades) = 2
    /\ \A a \in Addrs :
          /\ a \in DOMAIN accounts
          /\ SignedFill(a, trades[1]) # 0
          /\ SignedFill(a, trades[1]) + SignedFill(a, trades[2]) = 0
          /\ IsEmpty(accounts[a].positions)

(***************************************************************************)
(* Properties of request validation.                                       *)
(***************************************************************************)
\* the requests an implementation that validates would refuse
InvalidRequests ==
    {msg \in UncheckedRequests :
        \/ msg.amount <= 0
        \/ msg.leverage < 1
        \/ msg.instrument_name \notin supported_instrument_names
        \/ msg.type = "limit" /\ msg.price <= 0}

\* C20: a buy or sell with a non-positive amount, a non-positive limit price,
\* a leverage below 1 or an unknown instrument is answered with a failure and
\* changes neither the book nor any account's collateral, position or open
\* orders.
C20_InvalidRequestRefused ==
    \A msg \in InvalidRequests :
        LET res == handle_buy_sell(msg, now + 1)
        IN /\ res.status \in {"failure", "failed", "error"}
           /\ SameBook(res.st)
           /\ \A a \in DOMAIN res.accounts :
                 LET before == WithAccount(accounts, a)[a]
                 IN /\ res.accounts[a].collateral = before.collateral
                    /\ res.accounts[a].positions = before.positions
                    /\ res.accounts[a].open_orders = before.open_orders

(***************************************************************************)
(* Properties of the account operations.                                   *)
(***************************************************************************)
\* C18: every private method that takes a from address creates the account
\* when the address is unknown, so the first call for an unknown address never
\* fails because the account is missing.
C18_AccountCreatedOnFirstCall ==
    \A from \in Addrs \ DOMAIN accounts :
        /\ \A amount \in Amounts :
              /\ from \in DOMAIN _add_coll(WithAccount(accounts, from), from, amount)
              /\ from \in DOMAIN _withdraw_coll(WithAccount(accounts, from),
                                                from, amount).accounts
        /\ \A msg \in LimitRequests \cup MarketRequests, t \in Clock :
              msg.from = from => from \in DOMAIN handle_order(msg, t).accounts
        /\ \A method \in QueryMethods :
              LET res == handle_query(method, from)
              IN from \in DOMAIN res.accounts /\ res.status # "failed"

\* C19: a withdrawal of amount a succeeds exactly when available_margin >= a
\* (a = available_margin included); on success the collateral decreases by
\* exactly a, on failure it is unchanged.
C19_WithdrawalExactlyWhenCovered ==
    \A from \in Addrs, a \in Amounts :
        LET accts == _refresh_account_positions(WithAccount(accounts, from), from)
            res == _withdraw_coll(WithAccount(accounts, from), from, a)
        IN /\ res.status = "success" <=> FLe(Num(a), accts[from].available_margin)
           /\ res.status = "success" =>
                 res.accounts[from].collateral = accts[from].collateral - a
           /\ res.status # "success" =>
                 res.accounts[from].collateral = accts[from].collateral

(***************************************************************************)
(* Properties of the public snapshots.                                     *)
(***************************************************************************)
\* C22: public/get_order_book returns under "bids" the first at most depth
\* resting bids in priority order and under "asks" the first at most depth
\* resting asks; no ask appears under bids and no bid under asks.
C22_OrderBookSidesNotMixed ==
    \A depth \in 1..MaxDepth :
        LET data == _get_orderbook_data(depth)
        IN /\ data.bids = SubSeq(bids, 1, Min(depth, Len(bids)))
           /\ data.asks = SubSeq(asks, 1, Min(depth, Len(asks)))
           /\ \A o \in Range(data.bids) : o.side = BUY
           /\ \A o \in Range(data.asks) : o.side = SELL

\* the mark price for an EMA, an index and the two clamp factors: the sum
\* inside the band of 0.005 * index, the clamp value at and beyond its ends
ClampedMark(ema, upper, lower) ==
    LET index_price == Num(get_index_price)
        band == FMul(Frac(5, 1000), index_price)
    IN IF FLe(band, ema) THEN FMul(upper, index_price)
       ELSE IF FLe(ema, FSub(Num(0), band)) THEN FMul(lower, index_price)
       ELSE FAdd(index_price, ema)

\* C30: with a positive index, get_mark_price is index + ema when
\* -0.005 * index < ema < 0.005 * index, the upper clamp value only when
\* ema >= 0.005 * index and the lower clamp value only when
\* ema <= -0.005 * index, for perpetual and dated-futures books.
C30_MarkPriceClampedOutsideBandOnly ==
    get_index_price > 0 =>
        \A ema \in Emas :
            /\ PerpsOrderbook_get_mark_price(ema)
                  = ClampedMark(ema, Frac(1005, 1000), Frac(995, 1000))
            /\ FuturesOrderbook_get_mark_price(ema)
                  = ClampedMark(ema, Frac(10000003, 10000000),
                                Frac(9999997, 10000000))

TicksSinceClose(inst) ==
    IF inst \in DOMAIN ticks_since_close THEN ticks_since_close[inst]
    ELSE << >>

OnTime(tick) == tick.timestamp >= frontier

RECURSIVE MaxPrice_(_)
MaxPrice_(ticks) ==
    IF Len(ticks) = 1 THEN ticks[1].price
    ELSE LET m == MaxPrice_(Tail(ticks))
         IN IF ticks[1].price > m THEN ticks[1].price ELSE m

RECURSIVE MinPrice_(_)
MinPrice_(ticks) ==
    IF Len(ticks) = 1 THEN ticks[1].price
    ELSE LET m == MinPrice_(Tail(ticks))
         IN IF ticks[1].price < m THEN ticks[1].price ELSE m

RECURSIVE SumSizes(_)
SumSizes(ticks) ==
    IF ticks = << >> THEN 0 ELSE ticks[1].size + SumSizes(Tail(ticks))

\* the bar at the frontier made of a non-empty sequence of ticks: first
\* price, highest, lowest, last price, sum of the sizes
BarOf(ticks) ==
    [time |-> frontier, open |-> ticks[1].price, high |-> MaxPrice_(ticks),
     low |-> MinPrice_(ticks), close |-> ticks[Len(ticks)].price,
     volume |-> SumSizes(ticks)]

ClosedAs(inst, flat) ==
    LET rows == all_ohlc_data[inst]
        c == rows[Len(rows)].close
    IN all_ohlc_data'[inst] =
          IF flat
          THEN Append(rows, [time |-> frontier, open |-> c, high |-> c,
                             low |-> c, close |-> c, volume |-> 0])
          ELSE rows

C26_ProcessOrderNeverInterleaved ==
    ~(InProcessOrder("rpc") /\ InProcessOrder("mm"))

\* C29: a step that creates an account (appends to Exchange.users) creates
\* one that did not exist: no address is in users twice and no existing
\* account is changed by the creation
C29_LazyCreationRaceFree ==
    [][Len(users') > Len(users) =>
          /\ \A i, j \in 1..Len(users') : users'[i] = users'[j] => i = j
          /\ \A a \in DOMAIN accounts : accounts'[a] = accounts[a]]_vars

\* C21: whatever order the market maker submits next, the accounts after
\* the call are those the accounting of an RPC order gives for the same
\* order: positions of taker and maker updated for every trade, open-order
\* records updated for every order rested or filled
C21_MakerOrdersAccounted ==
    \A call \in {c \in MmCalls({}) : c.op \in {"limit", "market"}} :
        (pc["rpc"] = "idle" /\ pc["mm"] = "idle") =>
            _marketMakerOrder(call, now + 1).accounts =
                Settle(FALSE, WithAccount(accounts, call.from),
                       MakerOrder(call, now + 1), 10).accounts

\* C27: every trade whose position and open-order changes were applied to
\* the accounts by a buy/sell handler is on the topic "trades"
C27_PublishedBeforeApplied ==
    \A i \in 1..Len(exchange_trades) :
        \E j \in 1..Len(published) : published[j] = exchange_trades[i]

C27_Witness ==
    /\ exchange_trades # << >>
    /\ \E a \in DOMAIN accounts : accounts[a].positions # << >>

(***************************************************************************)
(* Properties of the pre-trade margin delta and of the position update.    *)
(***************************************************************************)
FMax0(x) == IF FGt(x, Num(0)) THEN x ELSE Num(0)

\* the accounts that hold a position
Holders == {a \in DOMAIN accounts : ~IsEmpty(accounts[a].positions)}

\* the side, as the request names it, opposite to a position of this size
OppositeSide(size) == IF size > 0 THEN "sell" ELSE "buy"

\* C31: for every account holding a position and every order on the opposite
\* side with size s strictly larger than |old_size|, the margin delta of the
\* pre-trade check is max(0, new_size * p / L - old_margin) with
\* new_size = ||old_size| - s|
C31_CrossThroughDelta ==
    \A a \in Holders : \A s \in Contracts, p \in Prices, L \in Leverages :
        LET pos == accounts[a].positions
        IN s > Abs(pos.size) =>
              change_in_final_future_margin(accounts, a, OppositeSide(pos.size),
                                            s, Frac(s * p, L), L, Num(p))
                 = FMax0(FSub(Frac(Abs(Abs(pos.size) - s) * p, L), pos.margin))

\* C32: for every account holding a position and every order on the opposite
\* side with size s at most |old_size|, the margin delta of the pre-trade
\* check is 0
C32_ReduceOrCloseDeltaZero ==
    \A a \in Holders : \A s \in Contracts, p \in Prices, L \in Leverages :
        LET pos == accounts[a].positions
        IN s <= Abs(pos.size) =>
              change_in_final_future_margin(accounts, a, OppositeSide(pos.size),
                                            s, Frac(s * p, L), L, Num(p))
                 = Num(0)

\* C33: for every account holding a position and every fill of size s < |size|
\* at price p on the opposite side, applied with the leverage L of the order
\* being filled, the position keeps its sign and its average price, its size
\* becomes old size + signed s and its margin becomes |new_size * p / L|
C33_ReducingFillUsesOrderLeverage ==
    \A a \in Holders : \A s \in Contracts, p \in Prices, L \in Leverages :
        LET pos == accounts[a].positions
            trade_side == IF pos.size > 0 THEN SELL ELSE BUY
            signed == IF pos.size > 0 THEN 0 - s ELSE s
            trade == Trade(a, a, trade_side, p, s, 0, 0)
            after == _update_futures_position(accounts, a, trade, trade_side, L)[a].positions
        IN s < Abs(pos.size) =>
              /\ after.size = pos.size + signed
              /\ (after.size > 0) = (pos.size > 0)
              /\ after.average_price = pos.average_price
              /\ after.margin = FAbs(Frac((pos.size + signed) * p, L))

(***************************************************************************)
(* Properties of the cancel branch and of the returned sets.               *)
(***************************************************************************)
\* the sequence without its i-th element
Without(seq, i) == SubSeq(seq, 1, i - 1) \o SubSeq(seq, i + 1, Len(seq))

\* C34: whatever CancelOrder comes next whose id is that of a resting order,
\* process_order removes exactly that order from its side, decreases the
\* aggregate of that side by its remainingToFill, leaves the other side and
\* its aggregate unchanged, returns no trade and records the id as cancelled
C34_CancelRemovesExactlyTheOrder ==
    \A order \in CancelOrders :
        LET st == process_order(order)
        IN /\ \A i \in 1..Len(bids) :
                 bids[i].order_id = order.order_id =>
                    /\ st.bids = Without(bids, i)
                    /\ st.aggregated_bids_size_depth =
                          aggregated_bids_size_depth - bids[i].remainingToFill
                    /\ st.asks = asks
                    /\ st.aggregated_asks_size_depth = aggregated_asks_size_depth
                    /\ st.trades = << >>
                    /\ order.order_id \in DOMAIN st.cancelled_orders
           /\ \A i \in 1..Len(asks) :
                 asks[i].order_id = order.order_id =>
                    /\ st.asks = Without(asks, i)
                    /\ st.aggregated_asks_size_depth =
                          aggregated_asks_size_depth - asks[i].remainingToFill
                    /\ st.bids = bids
                    /\ st.aggregated_bids_size_depth = aggregated_bids_size_depth
                    /\ st.trades = << >>
                    /\ order.order_id \in DOMAIN st.cancelled_orders

(***************************************************************************)
(* Properties of the positions across accounts.                            *)
(***************************************************************************)
RECURSIVE SumOfPositions(_, _)
SumOfPositions(accts, addrs) ==
    IF addrs = {} THEN 0
    ELSE LET a == CHOOSE x \in addrs : TRUE
         IN PositionSize(accts[a]) + SumOfPositions(accts, addrs \ {a})

\* C35: the signed position sizes of all accounts sum to zero
C35_PositionsSumToZero == SumOfPositions(accounts, DOMAIN accounts) = 0

(***************************************************************************)
(* Properties of the open-order records.                                   *)
(***************************************************************************)
\* the orders of an account resting in the book
RestingOf(a) == {o \in Range(bids) \cup Range(asks) : o.fromaddr = a}

\* the open-order records of the account are exactly its resting orders,
\* with the same remainingToFill
OpenOrdersMirrorBook(a) ==
    /\ \A id \in DOMAIN accounts[a].open_orders :
          \E o \in RestingOf(a) :
             /\ o.order_id = id
             /\ o.remainingToFill = accounts[a].open_orders[id].remainingToFill
    /\ \A o \in RestingOf(a) :
          /\ o.order_id \in DOMAIN accounts[a].open_orders
          /\ accounts[a].open_orders[o.order_id].remainingToFill = o.remainingToFill

\* C36: whenever no call is in progress (every operation that touched the
\* book has returned), the open orders of every account are exactly the
\* orders of that account resting in the book, with the same remainingToFill
C36_OpenOrdersMirrorBook ==
    (pc["rpc"] = "idle" /\ pc["mm"] = "idle") =>
        \A a \in DOMAIN accounts : OpenOrdersMirrorBook(a)

(***************************************************************************)
(* Properties of the maker's side of a fill.                               *)
(***************************************************************************)
\* C37: whatever buy/sell request comes next and makes exactly one trade
\* against a maker that holds no position, the position the fill opens for
\* the maker has the leverage of the maker's resting order and the margin
\* price * size / that leverage
C37_MakerKeepsOwnLeverage ==
    \A msg \in TradingLimitRequests \cup TradingMarketRequests :
        LET res == handle_order(msg, now + 1)
        IN (res.status = "success" /\ Len(res.st.trades) = 1) =>
              LET trade == res.st.trades[1]
                  resting == RestingOrder(trade.book_order_id)
                  position == res.accounts[trade.maker].positions
              IN IsEmpty(accounts[trade.maker].positions) =>
                    /\ position.leverage = resting.leverage
                    /\ position.margin =
                          Frac(trade.price * trade.size, resting.leverage)

\* C38: whatever limit or market order comes next, no order id is returned
\* by process_order both in filled_orders and in cancelled_orders
C38_NeverFilledAndCancelled ==
    \A order \in LimitOrders \cup MarketOrders :
        LET st == process_order(order)
        IN DOMAIN st.filled_orders \cap DOMAIN st.cancelled_orders = {}

(***************************************************************************)
(* Properties of the rows of the OHLC aggregator.                          *)
(***************************************************************************)
\* C39: for every instrument the times of its base bars are strictly
\* increasing (at most one bar per frontier)
C39_BarTimesStrictlyIncreasing ==
    \A inst \in DOMAIN all_ohlc_data :
        \A i, j \in DOMAIN all_ohlc_data[inst] :
            i < j => all_ohlc_data[inst][i].time < all_ohlc_data[inst][j].time

\* C40: every instrument the consumer has seen has a bar (its first tick
\* created one, whatever its timestamp) and the consumer has not stopped
C40_FirstTickCreatesBar ==
    /\ consuming
    /\ \A inst \in DOMAIN all_ohlc_data : all_ohlc_data[inst] # << >>

====
